---- MODULE Spec2Model ----
(***************************************************************************)
(* A model of the PDF image extraction of examtopics_tools                 *)
(* (src/src/modules/pdf/pdf-parser.ts): text line grouping, question       *)
(* anchors, stem paragraphs, the band/region filter, the block interleaver *)
(* and the page loop of extractPdfImagesIntoQuestions.                     *)
(*                                                                         *)
(* Text is modelled as a sequence of words (a trimmed, whitespace-         *)
(* normalised string); the regular expressions of the source are modelled  *)
(* by word classes.  Line indices are 0-based as in the source; TLA+       *)
(* sequences are 1-based, so lines[i + 1] is the source's lines[i].        *)
(***************************************************************************)
EXTENDS Integers, Sequences, FiniteSets, TLC

VARIABLES
  pc,                \* position in extractPdfImagesIntoQuestions
  numPages,          \* pdf.numPages
  pageIndex,         \* the for-loop's pageIndex
  questions,         \* parsed.questions
  perQuestionCounts, \* Map questionNumber -> images numbered so far
  updated,           \* Set of updated question numbers
  extractedImages,   \* counter
  linkedImages,      \* counter
  imageWrites,       \* every fs.writeFile call made for an image file, and whether it succeeded
  outputJson,        \* the output JSON file on disk
  lines,             \* the page's text lines
  anchors,           \* the page's anchors
  pageImages,        \* the page's extracted images
  a,                 \* the band loop's index
  bandLog,           \* the bands of the page processed so far
  parsed,            \* JSON.parse(jsonRaw)
  imagesDir,         \* whether fs.mkdir(imagesDirAbsolute) was done
  error,             \* the error the returned promise is rejected with
  minWidth,          \* extractImagesFromPage: parameter
  minHeight,         \* extractImagesFromPage: parameter
  opList,            \* extractImagesFromPage: page.getOperatorList()
  objs,              \* extractImagesFromPage: page.objs and page.commonObjs
  opIndex,           \* extractImagesFromPage: the loop's i
  stack,             \* extractImagesFromPage: saved transforms
  ctm,               \* extractImagesFromPage: current transform
  images,            \* extractImagesFromPage: images collected
  opLog,             \* extractImagesFromPage: ctm, stack depth and image count after each operator
  call               \* a direct call of one helper function: arguments and result

opVars == <<minWidth, minHeight, opList, objs, opIndex, stack, ctm, images, opLog>>

docVars == <<pc, numPages, pageIndex, questions, perQuestionCounts, updated,
             extractedImages, linkedImages, imageWrites, outputJson, lines, anchors,
             pageImages, a, bandLog, parsed, imagesDir, error>>

vars == <<docVars, opVars, call>>

----------------------------------------------------------------------------
(* Bounds of the model *)

MaxItems == 3        \* text fragments of a page
MaxImages == 2       \* extracted images of a page
MaxPages == 2        \* pages of a document
MaxDocItems == 1     \* text fragments of a page of a document of several pages
MaxAnchors == 3      \* anchors handed to findBestAnchorForImage
MaxStemLines == 4    \* lines handed to buildStemParagraphs

----------------------------------------------------------------------------
(* Generic helpers *)

Range(s) == {s[i] : i \in DOMAIN s}

SeqsUpTo(S, n) == UNION {[1..k -> S] : k \in 0..n}

null == [null |-> TRUE]

RECURSIVE Flatten(_)
Flatten(ss) == IF ss = <<>> THEN <<>> ELSE Head(ss) \o Flatten(Tail(ss))

\* Array.prototype.sort((a, b) => b.y - a.y): stable, descending y
RECURSIVE InsertDescY(_, _)
InsertDescY(sorted, e) ==
  IF sorted = <<>> THEN <<e>>
  ELSE IF Head(sorted).y >= e.y
       THEN <<Head(sorted)>> \o InsertDescY(Tail(sorted), e)
       ELSE <<e>> \o sorted

RECURSIVE SortDescY(_)
SortDescY(s) ==
  IF s = <<>> THEN <<>>
  ELSE InsertDescY(SortDescY(SubSeq(s, 1, Len(s) - 1)), s[Len(s)])

\* Array.prototype.sort((a, b) => a.x - b.x): stable, ascending x
RECURSIVE InsertAscX(_, _)
InsertAscX(sorted, e) ==
  IF sorted = <<>> THEN <<e>>
  ELSE IF Head(sorted).x <= e.x
       THEN <<Head(sorted)>> \o InsertAscX(Tail(sorted), e)
       ELSE <<e>> \o sorted

RECURSIVE SortAscX(_)
SortAscX(s) ==
  IF s = <<>> THEN <<>>
  ELSE InsertAscX(SortAscX(SubSeq(s, 1, Len(s) - 1)), s[Len(s)])

----------------------------------------------------------------------------
(* Words and the regular expressions of the source *)

\* /Question\s*#\s*(\d+)/i : the words holding a question marker
MarkerWords == {"Question #1", "Question #2", "question #2", "Question #7",
                "Question #999..."}

\* Number(match[1]); "Question #999..." stands for a digit run too long for a double,
\* whose Number is Infinity
MarkerNumber(w) ==
  CASE w = "Question #1" -> 1
    [] w = "Question #2" -> 2
    [] w = "question #2" -> 2
    [] w = "Question #7" -> 7
    [] OTHER -> 0

IsFiniteMarker(w) == w # "Question #999..."

\* /^Topic\s*\d+/i, /^Most\s*Voted/i, /^Correct\s*Answer:/i
OtherNoiseWords == {"Topic 1", "Most Voted", "Correct Answer:"}

\* /^\s*[A-H][.)]\s+/ : the option label, which must be followed by whitespace
OptionLabels == {"A.", "B)"}

isOptionLine(text) == Len(text) >= 2 /\ text[1] \in OptionLabels

isNoiseLine(text) ==
  \/ text = <<>>
  \/ text[1] \in MarkerWords
  \/ text[1] \in OtherNoiseWords

----------------------------------------------------------------------------
(* groupTextIntoLines *)

\* Math.round(y / 2) * 2, for an integer y (Math.round rounds a half up)
\* rows keyed by the exact y, without rounding
ExactY(y) == y

yKeyOf(y) == 2 * ((y + 1) \div 2)

RowIndex(rows, k) ==
  IF \E i \in DOMAIN rows : rows[i].key = k
  THEN CHOOSE i \in DOMAIN rows : rows[i].key = k
  ELSE 0

AddItemToRows(rows, item) ==
  IF item.str = <<>> THEN rows
  ELSE LET k == yKeyOf(item.y)
           i == RowIndex(rows, k)
           part == [x |-> item.x, str |-> item.str]
       IN IF i = 0
          THEN Append(rows, [key |-> k, y |-> item.y, parts |-> <<part>>])
          ELSE [rows EXCEPT ![i].parts = Append(@, part)]

RECURSIVE CollectRows(_)
CollectRows(items) ==
  IF items = <<>> THEN <<>>
  ELSE AddItemToRows(CollectRows(SubSeq(items, 1, Len(items) - 1)), items[Len(items)])

RowText(row) ==
  LET sorted == SortAscX(row.parts)
  IN Flatten([i \in DOMAIN sorted |-> sorted[i].str])

NonEmptyText(l) == Len(l.text) > 0

\* a groupTextIntoLines that forgets its final sort
KeepRowOrder(ls) == ls

SortLinesDesc(ls) == SortDescY(ls)

groupTextIntoLines(items) ==
  LET rows == CollectRows(items)
      mapped == [i \in DOMAIN rows |-> [y |-> rows[i].y, text |-> RowText(rows[i])]]
  IN SortLinesDesc(SelectSeq(mapped, NonEmptyText))

----------------------------------------------------------------------------
(* extractQuestionAnchorsFromLines *)

HasMarker(text) == \E i \in DOMAIN text : text[i] \in MarkerWords

FirstMarker(text) ==
  text[CHOOSE i \in DOMAIN text :
         /\ text[i] \in MarkerWords
         /\ \A j \in 1..(i - 1) : text[j] \notin MarkerWords]

RECURSIVE CollectAnchors(_, _)
CollectAnchors(ls, n) ==
  IF n = 0 THEN <<>>
  ELSE LET rest == CollectAnchors(ls, n - 1)
           line == ls[n]
       IN IF ~HasMarker(line.text) THEN rest
          ELSE IF ~IsFiniteMarker(FirstMarker(line.text)) THEN rest
          ELSE Append(rest, [questionNumber |-> MarkerNumber(FirstMarker(line.text)),
                             y |-> line.y, lineIndex |-> n - 1])

\* a page without a marker treated as a page of question 1
AnchorsOrFirstQuestion(ls) ==
  IF CollectAnchors(ls, Len(ls)) = <<>> /\ ls # <<>>
  THEN <<[questionNumber |-> 1, y |-> ls[1].y, lineIndex |-> 0]>>
  ELSE SortDescY(CollectAnchors(ls, Len(ls)))

extractQuestionAnchorsFromLines(ls) == SortDescY(CollectAnchors(ls, Len(ls)))

----------------------------------------------------------------------------
(* findBestAnchorForImage *)

BelowPenalty == 10000

Score(anchor, imageY) ==
  IF anchor.y >= imageY THEN anchor.y - imageY
  ELSE BelowPenalty + (imageY - anchor.y)

\* the loop's variable best after the first n anchors
RECURSIVE BestAfter(_, _, _)
BestAfter(as, imageY, n) ==
  IF n = 0 THEN null
  ELSE LET best == BestAfter(as, imageY, n - 1)
           score == Score(as[n], imageY)
       IN IF best = null \/ score < best.score
          THEN [anchor |-> as[n], score |-> score]
          ELSE best

findBestAnchorForImage(as, imageY) ==
  IF Len(as) = 0 THEN null
  ELSE BestAfter(as, imageY, Len(as)).anchor

----------------------------------------------------------------------------
(* buildStemParagraphs *)

threshold == 18

\* current.parts.join(' ').replace(/\s+/g, ' ').trim()
ParagraphText(parts) == Flatten(parts)

PushParagraph(result, current) ==
  IF ParagraphText(current.parts) # <<>>
  THEN Append(result, [y |-> current.y, text |-> ParagraphText(current.parts)])
  ELSE result

NewParagraph(line) == [y |-> line.y, parts |-> <<line.text>>]

\* a loop that skips an option line instead of leaving at it
StemStepSkipsOption(st, line) ==
  IF isNoiseLine(line.text) \/ isOptionLine(line.text) THEN st
  ELSE IF st.current = null THEN [st EXCEPT !.current = NewParagraph(line)]
  ELSE IF st.current.y - line.y > threshold
       THEN [st EXCEPT !.result = PushParagraph(st.result, st.current),
                       !.current = NewParagraph(line)]
       ELSE [st EXCEPT !.current = [y |-> st.current.y,
                                    parts |-> Append(st.current.parts, line.text)]]

\* one iteration of the for-loop; st.broke records that the loop was left by break
StemStep(st, line) ==
  IF st.broke THEN st
  ELSE IF isNoiseLine(line.text) THEN st
  ELSE IF isOptionLine(line.text) THEN [st EXCEPT !.broke = TRUE]
  ELSE IF st.current = null THEN [st EXCEPT !.current = NewParagraph(line)]
  ELSE IF st.current.y - line.y > threshold
       THEN [st EXCEPT !.result = PushParagraph(st.result, st.current),
                       !.current = NewParagraph(line)]
       ELSE [st EXCEPT !.current = [y |-> st.current.y,
                                    parts |-> Append(st.current.parts, line.text)]]

RECURSIVE StemLoop(_, _, _, _)
StemLoop(ls, i, endIndexExclusive, st) ==
  IF i >= endIndexExclusive THEN st
  ELSE StemLoop(ls, i + 1, endIndexExclusive, StemStep(st, ls[i + 1]))

buildStemParagraphs(ls, startIndex, endIndexExclusive) ==
  LET st == StemLoop(ls, startIndex, endIndexExclusive,
                     [result |-> <<>>, current |-> null, broke |-> FALSE])
  IN IF st.current # null THEN PushParagraph(st.result, st.current)
     ELSE st.result

----------------------------------------------------------------------------
(* Direct calls of the helper functions, with arguments drawn from bounded sets *)

\* a JSON value: its type, and its elements when it is an array
JsonArray(items) == [type |-> "array", items |-> items]
JsonUndefined == [type |-> "undefined", items |-> <<>>]
JsonObject == [type |-> "object", items |-> <<>>]

\* the output JSON file: not written yet, or JSON.stringify(parsed) of some moment
NoFile == [written |-> FALSE, questions |-> <<>>]
JsonFile(qs) == [written |-> TRUE, questions |-> qs]

\* [1, 0, 0, 1, 0, 0]
Identity == <<1, 0, 0, 1, 0, 0>>

\* options.minWidth ?? 80, options.minHeight ?? 80
DefaultMin == 80

\* no operator list is being interpreted
OpsIdle ==
  /\ minWidth = DefaultMin /\ minHeight = DefaultMin
  /\ opList = <<>> /\ objs = [page |-> <<>>, common |-> <<>>] /\ opIndex = 0 /\ stack = <<>> /\ ctm = Identity
  /\ images = <<>> /\ opLog = <<>>

\* the document run is not started
DocIdle ==
  /\ pc = "idle" /\ numPages = 0 /\ pageIndex = 0 /\ questions = <<>>
  /\ perQuestionCounts = <<>> /\ updated = {} /\ extractedImages = 0
  /\ linkedImages = 0 /\ imageWrites = {} /\ outputJson = NoFile
  /\ lines = <<>> /\ anchors = <<>> /\ pageImages = <<>> /\ a = 0
  /\ bandLog = <<>>
  /\ parsed = JsonUndefined /\ imagesDir = FALSE /\ error = "none"

\* text fragments: item.str trimmed, item.transform[4], item.transform[5]
FragmentXs == {0, 50}
FragmentYs == {697, 699, 700}
FragmentStrs == {<<>>, <<"Question #1">>, <<"question #2">>, <<"stem">>,
                 <<"Question #999...">>}
Fragments == [x : FragmentXs, y : FragmentYs, str : FragmentStrs]

InitLines ==
  /\ DocIdle
  /\ OpsIdle
  /\ \E items \in SeqsUpTo(Fragments, MaxItems) :
       call = [fn |-> "groupTextIntoLines", items |-> items,
               lines |-> null, anchors |-> null]

CallGroupTextIntoLines ==
  /\ call.fn = "groupTextIntoLines"
  /\ call' = [call EXCEPT !.fn = "extractQuestionAnchorsFromLines",
                          !.lines = groupTextIntoLines(call.items)]
  /\ UNCHANGED <<docVars, opVars>>

CallExtractQuestionAnchorsFromLines ==
  /\ call.fn = "extractQuestionAnchorsFromLines"
  /\ call' = [call EXCEPT !.fn = "returned",
                          !.anchors = extractQuestionAnchorsFromLines(call.lines)]
  /\ UNCHANGED <<docVars, opVars>>

NextLines == CallGroupTextIntoLines \/ CallExtractQuestionAnchorsFromLines

SpecLines == InitLines /\ [][NextLines]_vars

\* anchors and image positions for findBestAnchorForImage
BestYs == {0, 5, 10, 10016, 10020}
BestAnchors == [questionNumber : {1, 2}, y : BestYs]

InitBest ==
  /\ DocIdle
  /\ OpsIdle
  /\ \E as \in SeqsUpTo(BestAnchors, MaxAnchors), imageY \in BestYs :
       call = [fn |-> "findBestAnchorForImage", anchors |-> as, imageY |-> imageY,
               ret |-> null]

CallFindBestAnchorForImage ==
  /\ call.fn = "findBestAnchorForImage"
  /\ call' = [call EXCEPT !.fn = "returned",
                          !.ret = findBestAnchorForImage(call.anchors, call.imageY)]
  /\ UNCHANGED <<docVars, opVars>>

NextBest == CallFindBestAnchorForImage

SpecBest == InitBest /\ [][NextBest]_vars

\* line lists as groupTextIntoLines returns them: strictly descending y, no empty text
StemYs == {700, 688, 676, 658, 640}
StemTexts == {<<"stem">>, <<"Topic 1", "stem">>, <<"A.", "Paris">>, <<"A.">>}
RECURSIVE Descending(_)
Descending(ys) ==
  IF ys = {} THEN <<>>
  ELSE LET top == CHOOSE y \in ys : \A z \in ys : z <= y
       IN <<top>> \o Descending(ys \ {top})
StemLineLists ==
  UNION {{[i \in 1..Cardinality(ys) |-> [y |-> Descending(ys)[i], text |-> texts[i]]] :
            texts \in [1..Cardinality(ys) -> StemTexts]} :
         ys \in {s \in SUBSET StemYs : Cardinality(s) <= MaxStemLines}}

InitStem ==
  /\ DocIdle
  /\ OpsIdle
  /\ \E ls \in StemLineLists :
       \E startIndex \in 0..Len(ls) :
         \E endIndexExclusive \in startIndex..Len(ls) :
           call = [fn |-> "buildStemParagraphs", lines |-> ls,
                   startIndex |-> startIndex,
                   endIndexExclusive |-> endIndexExclusive, ret |-> null]

CallBuildStemParagraphs ==
  /\ call.fn = "buildStemParagraphs"
  /\ call' = [call EXCEPT !.fn = "returned",
                          !.ret = buildStemParagraphs(call.lines, call.startIndex,
                                                      call.endIndexExclusive)]
  /\ UNCHANGED <<docVars, opVars>>

NextStem == CallBuildStemParagraphs

SpecStem == InitStem /\ [][NextStem]_vars

----------------------------------------------------------------------------
(* extractPdfImagesIntoQuestions: the page loop *)

\* Map.get(k) ?? 0 and Map.set(k, v)
Get(map, k) == IF k \in DOMAIN map THEN map[k] ELSE 0
Put(map, k, v) == [x \in (DOMAIN map) \cup {k} |-> IF x = k THEN v ELSE map[x]]

\* questionsByNumber.get(qn): the last question of the array with that number, 0 if none
QuestionIndex(qs, qn) ==
  IF \E i \in DOMAIN qs : qs[i].questionNumber = qn
  THEN CHOOSE i \in DOMAIN qs :
         /\ qs[i].questionNumber = qn
         /\ \A j \in DOMAIN qs : qs[j].questionNumber = qn => j <= i
  ELSE 0

\* anchors[a] and anchors[a + 1] of the source
AnchorOf(as, i) == as[i + 1]
NextAnchorOf(as, i) == IF i + 2 <= Len(as) THEN as[i + 2] ELSE null

\* a band closed at both ends
InRegionClosed(img, anchor, nextAnchor) ==
  /\ img.y <= anchor.y
  /\ (nextAnchor = null \/ img.y >= nextAnchor.y)

\* img.y <= upperY && img.y > lowerY, lowerY being -Infinity without a next anchor
InRegion(img, anchor, nextAnchor) ==
  /\ img.y <= anchor.y
  /\ (nextAnchor = null \/ img.y > nextAnchor.y)

imagesInRegion(imgs, anchor, nextAnchor) ==
  LET Test(img) == InRegion(img, anchor, nextAnchor)
  IN SelectSeq(imgs, Test)

\* a band is never taken to be without images
NeverEmpty(inRegion) == FALSE

\* imagesInRegion.length === 0
HasNoImages(inRegion) == inRegion = <<>>

\* a band that always runs to the end of the page
EndOfPage(ls, nextAnchor) == Len(ls)

endLineIndexExclusive(ls, nextAnchor) ==
  IF nextAnchor # null THEN nextAnchor.lineIndex ELSE Len(ls)

\* a counter that starts again for every band
CountFromZero(counts, qn) == 0

currentCount(counts, qn) == Get(counts, qn)

\* escapeHtml, word by word: & < > " ' become entities, every other character stays
escapeWord(w) ==
  CASE w = "a<b" -> "a&lt;b"
    [] w = "R&D" -> "R&amp;D"
    [] OTHER -> w

escapeHtml(text) == [i \in DOMAIN text |-> escapeWord(text[i])]

TextBlocks(stemParagraphs) ==
  [i \in DOMAIN stemParagraphs |->
     [kind |-> "text", y |-> stemParagraphs[i].y, text |-> stemParagraphs[i].text]]

\* the image blocks pushed for the first k images of imagesSorted
ImageBlocks(imagesSorted, k, qn, page, count) ==
  [i \in 1..k |->
     [kind |-> "image", y |-> imagesSorted[i].y,
      src |-> [q |-> qn, p |-> page, n |-> count + i],
      alt |-> [question |-> qn, image |-> count + i]]]

\* the fs.writeFile calls for the first k images, the last one failing if lastOk is FALSE
ImageWrites(k, qn, page, count, lastOk) ==
  {[filename |-> [q |-> qn, p |-> page, n |-> count + i], ok |-> (i < k \/ lastOk)] :
     i \in 1..k}

\* blocks left in the order they were pushed: paragraphs, then images
PushOrder(blocks) == blocks

SortBlocks(blocks) == SortDescY(blocks)

Serialize(blocks) ==
  [i \in DOMAIN blocks |->
     IF blocks[i].kind = "text"
     THEN [tag |-> "p", text |-> escapeHtml(blocks[i].text)]
     ELSE [tag |-> "p", img |-> [src |-> blocks[i].src, alt |-> blocks[i].alt]]]

BandEntry(state, inRegion, endIndex, paragraphs, blocks, html) ==
  [a |-> a, questionNumber |-> AnchorOf(anchors, a).questionNumber, state |-> state,
   images |-> inRegion, startIndex |-> AnchorOf(anchors, a).lineIndex + 1,
   endIndexExclusive |-> endIndex, stemParagraphs |-> paragraphs,
   blocks |-> blocks, html |-> html]

PageLocalsReset ==
  /\ lines' = <<>> /\ anchors' = <<>> /\ pageImages' = <<>> /\ a' = 0
  /\ bandLog' = <<>>

\* an error of a page that leaves the page loop
Rethrow ==
  /\ pc' = "failed"
  /\ pageIndex' = pageIndex
  /\ PageLocalsReset

\* catch (error): log, and go on with the next page
CatchPageError ==
  /\ pc' = "getPage"
  /\ pageIndex' = pageIndex + 1
  /\ PageLocalsReset

\* a JSON with every check of the input left out
AnyJson(p) == TRUE

\* parsed.questions && Array.isArray(parsed.questions)
IsQuestionsArray(p) == p.type = "array"

\* fs.readFile, JSON.parse and the check of parsed.questions
ReadInput ==
  /\ pc = "start"
  /\ IF IsQuestionsArray(parsed)
     THEN /\ questions' = parsed.items
          /\ pc' = "open"
          /\ UNCHANGED error
     ELSE /\ pc' = "failed"
          /\ error' = "invalidJson"
          /\ UNCHANGED questions
  /\ UNCHANGED <<numPages, pageIndex, perQuestionCounts, updated, extractedImages,
                 linkedImages, imageWrites, outputJson, lines, anchors, pageImages,
                 a, bandLog, parsed, imagesDir, opVars, call>>

\* questionsByNumber, fs.mkdir of the images directory, the PDF is loaded
OpenDocument ==
  /\ pc = "open"
  /\ imagesDir' = TRUE
  /\ pc' = "getPage"
  /\ UNCHANGED <<numPages, pageIndex, questions, perQuestionCounts, updated,
                 extractedImages, linkedImages, imageWrites, outputJson, lines,
                 anchors, pageImages, a, bandLog, parsed, error, opVars, call>>

\* fs.mkdir throws, or it succeeds and reading or loading the PDF throws
OpenThrows ==
  /\ pc = "open"
  /\ imagesDir' \in BOOLEAN
  /\ pc' = "failed"
  /\ error' = "open"
  /\ UNCHANGED <<numPages, pageIndex, questions, perQuestionCounts, updated,
                 extractedImages, linkedImages, imageWrites, outputJson, lines,
                 anchors, pageImages, a, bandLog, parsed, opVars, call>>

\* pdf.getPage, page.getTextContent, groupTextIntoLines, extractQuestionAnchorsFromLines
LoadText(items) ==
  /\ pc = "getPage"
  /\ pageIndex <= numPages
  /\ lines' = groupTextIntoLines(items)
  /\ anchors' = extractQuestionAnchorsFromLines(lines')
  /\ pc' = "images"
  /\ UNCHANGED <<numPages, pageIndex, questions, perQuestionCounts, updated,
                 extractedImages, linkedImages, imageWrites, outputJson, pageImages,
                 a, bandLog, call, parsed, imagesDir, error, opVars>>

\* extractImagesFromPage: ys are the origins (ctm[5]) of the images it returns
LoadImages(ys) ==
  /\ pc = "images"
  /\ pageImages' = [i \in DOMAIN ys |-> [id |-> i, y |-> ys[i]]]
  /\ a' = 0
  /\ bandLog' = <<>>
  /\ pc' = "bands"
  /\ UNCHANGED <<numPages, pageIndex, questions, perQuestionCounts, updated,
                 extractedImages, linkedImages, imageWrites, outputJson, lines,
                 anchors, call, parsed, imagesDir, error, opVars>>

\* getPage, getTextContent or extractImagesFromPage throws
PageThrows ==
  /\ \/ pc = "getPage" /\ pageIndex <= numPages
     \/ pc = "images"
  /\ CatchPageError
  /\ UNCHANGED <<numPages, questions, perQuestionCounts, updated, extractedImages,
                 linkedImages, imageWrites, outputJson, call, parsed, imagesDir, error, opVars>>

\* a band whose question is unknown, or that holds no image: continue
BandContinue ==
  /\ pc = "bands"
  /\ a < Len(anchors)
  /\ LET anchor == AnchorOf(anchors, a)
         nextAnchor == NextAnchorOf(anchors, a)
         question == QuestionIndex(questions, anchor.questionNumber)
     IN \/ /\ question = 0
           /\ bandLog' = Append(bandLog, BandEntry("noQuestion", <<>>, 0, <<>>, <<>>, <<>>))
        \/ /\ question # 0
           /\ HasNoImages(imagesInRegion(pageImages, anchor, nextAnchor))
           /\ bandLog' = Append(bandLog, BandEntry("noImages", <<>>, 0, <<>>, <<>>, <<>>))
  /\ a' = a + 1
  /\ UNCHANGED <<pc, numPages, pageIndex, questions, perQuestionCounts, updated,
                 extractedImages, linkedImages, imageWrites, outputJson, lines,
                 anchors, pageImages, call, parsed, imagesDir, error, opVars>>

\* a band with images, every image file written: the question's content is replaced
BandLinked ==
  /\ pc = "bands"
  /\ a < Len(anchors)
  /\ LET anchor == AnchorOf(anchors, a)
         nextAnchor == NextAnchorOf(anchors, a)
         qn == anchor.questionNumber
         question == QuestionIndex(questions, qn)
         inRegion == imagesInRegion(pageImages, anchor, nextAnchor)
         endIndex == endLineIndexExclusive(lines, nextAnchor)
         stemParagraphs == buildStemParagraphs(lines, anchor.lineIndex + 1, endIndex)
         imagesSorted == SortDescY(inRegion)
         n == Len(imagesSorted)
         count == currentCount(perQuestionCounts, qn)
         blocks == SortBlocks(TextBlocks(stemParagraphs)
                              \o ImageBlocks(imagesSorted, n, qn, pageIndex, count))
         html == Serialize(blocks)
     IN /\ question # 0
        /\ ~HasNoImages(inRegion)
        /\ extractedImages' = extractedImages + n
        /\ linkedImages' = linkedImages + n
        /\ perQuestionCounts' = Put(perQuestionCounts, qn, count + n)
        /\ imageWrites' = imageWrites \cup ImageWrites(n, qn, pageIndex, count, TRUE)
        /\ IF html # <<>>
           THEN /\ questions' = [questions EXCEPT ![question].content = html]
                /\ updated' = updated \cup {qn}
           ELSE UNCHANGED <<questions, updated>>
        /\ bandLog' = Append(bandLog,
                             BandEntry("serialized", inRegion, endIndex, stemParagraphs,
                                       blocks, html))
  /\ a' = a + 1
  /\ UNCHANGED <<pc, numPages, pageIndex, outputJson, lines, anchors, pageImages,
                 call, parsed, imagesDir, error, opVars>>

\* a band with images, fs.writeFile of its k-th image throws: the page is given up
BandWriteFails ==
  /\ pc = "bands"
  /\ a < Len(anchors)
  /\ LET anchor == AnchorOf(anchors, a)
         nextAnchor == NextAnchorOf(anchors, a)
         qn == anchor.questionNumber
         question == QuestionIndex(questions, qn)
         inRegion == imagesInRegion(pageImages, anchor, nextAnchor)
         imagesSorted == SortDescY(inRegion)
         count == currentCount(perQuestionCounts, qn)
     IN /\ question # 0
        /\ ~HasNoImages(inRegion)
        /\ \E k \in 1..Len(imagesSorted) :
             /\ extractedImages' = extractedImages + k
             /\ linkedImages' = linkedImages + (k - 1)
             /\ perQuestionCounts' = Put(perQuestionCounts, qn, count + k)
             /\ imageWrites' = imageWrites \cup ImageWrites(k, qn, pageIndex, count, FALSE)
  /\ CatchPageError
  /\ UNCHANGED <<numPages, questions, updated, outputJson,
                 call, parsed, imagesDir, error, opVars>>

\* after the last band: the JSON is written when the page had images
EndPage ==
  /\ pc = "bands"
  /\ a = Len(anchors)
  /\ outputJson' = IF pageImages # <<>> THEN JsonFile(questions) ELSE outputJson
  /\ pc' = "getPage"
  /\ pageIndex' = pageIndex + 1
  /\ PageLocalsReset
  /\ UNCHANGED <<numPages, questions, perQuestionCounts, updated, extractedImages,
                 linkedImages, imageWrites, call, parsed, imagesDir, error, opVars>>

\* after the last band: the write of the JSON throws
FlushThrows ==
  /\ pc = "bands"
  /\ a = Len(anchors)
  /\ pageImages # <<>>
  /\ CatchPageError
  /\ UNCHANGED <<numPages, questions, perQuestionCounts, updated, extractedImages,
                 linkedImages, imageWrites, outputJson, call, parsed, imagesDir, error, opVars>>

\* after the last page: the final write and the report
Finish ==
  /\ pc = "getPage"
  /\ pageIndex > numPages
  /\ outputJson' = JsonFile(questions)
  /\ pc' = "done"
  /\ UNCHANGED <<numPages, pageIndex, questions, perQuestionCounts, updated,
                 extractedImages, linkedImages, imageWrites, lines, anchors, pageImages,
                 a, bandLog, call, parsed, imagesDir, error, opVars>>

\* after the last page: the final write throws
FinalWriteThrows ==
  /\ pc = "getPage"
  /\ pageIndex > numPages
  /\ pc' = "failed"
  /\ error' = "finalWrite"
  /\ UNCHANGED <<numPages, pageIndex, questions, perQuestionCounts, updated,
                 extractedImages, linkedImages, imageWrites, outputJson, lines,
                 anchors, pageImages, a, bandLog, parsed, imagesDir, opVars, call>>

\* the input JSON as parse-pdf writes it: questions 1..n, each with its content;
\* the pages know the markers of questions 1 and 2
JsonSizes == {1, 2}
OriginalContent == <<[tag |-> "p", text |-> <<"original">>]>>
QuestionLists ==
  {[i \in 1..n |-> [id |-> i, questionNumber |-> i, content |-> OriginalContent]] :
     n \in JsonSizes}

\* what JSON.parse can return: questions is an array, is missing, or is something else
ParsedJsons == {JsonArray(qs) : qs \in QuestionLists} \cup {JsonUndefined, JsonObject}

InitRun(pages) ==
  /\ pc = "start"
  /\ numPages \in pages
  /\ pageIndex = 1
  /\ parsed \in ParsedJsons
  /\ questions = <<>>
  /\ imagesDir = FALSE
  /\ error = "none"
  /\ OpsIdle
  /\ perQuestionCounts = <<>>
  /\ updated = {}
  /\ extractedImages = 0
  /\ linkedImages = 0
  /\ imageWrites = {}
  /\ outputJson = NoFile
  /\ lines = <<>> /\ anchors = <<>> /\ pageImages = <<>> /\ a = 0 /\ bandLog = <<>>
  /\ call = [fn |-> "none"]

Bands == BandContinue \/ BandWriteFails \/ BandLinked

Setup == ReadInput \/ OpenDocument \/ OpenThrows

Ending == Finish \/ FinalWriteThrows

\* a document of several pages, each with little text
DocFragments == [x : {0}, y : {720, 700}, str : {<<"Question #1">>, <<"Question #2">>}]
DocImageYs == {710, 690}

DocItemLists == SeqsUpTo(DocFragments, MaxDocItems)
DocImageLists == SeqsUpTo(DocImageYs, MaxImages)

GetDocText == pc = "getPage" /\ \E items \in DocItemLists : LoadText(items)
GetDocImages == pc = "images" /\ \E ys \in DocImageLists : LoadImages(ys)

Init == InitRun(1..MaxPages)

Next ==
  Setup \/ GetDocText \/ GetDocImages \/ PageThrows \/ Bands \/ EndPage \/ FlushThrows \/ Ending

Spec == Init /\ [][Next]_vars

\* a single page with richer geometry
PageFragments ==
  [x : {0}, y : {720, 700, 650},
   str : {<<"Question #1">>, <<"Question #2">>, <<"a<b">>}]
PageImageYs == {710, 700, 680}

PageItemLists == SeqsUpTo(PageFragments, MaxItems)
PageImageLists == SeqsUpTo(PageImageYs, MaxImages)

GetPageText == pc = "getPage" /\ \E items \in PageItemLists : LoadText(items)
GetPageImages == pc = "images" /\ \E ys \in PageImageLists : LoadImages(ys)

InitPage == InitRun({1})

NextPage ==
  Setup \/ GetPageText \/ GetPageImages \/ PageThrows \/ Bands \/ EndPage \/ FlushThrows \/ Ending

SpecPage == InitPage /\ [][NextPage]_vars

\* a whole run over pages without text, with one question, or with two questions,
\* and with no, one or two images; every await settles, so the run goes on
RunItemLists ==
  {<<>>,
   <<[x |-> 0, y |-> 720, str |-> <<"Question #1">>]>>,
   <<[x |-> 0, y |-> 720, str |-> <<"Question #1">>],
     [x |-> 0, y |-> 700, str |-> <<"Question #2">>]>>}
RunImageLists == {<<>>, <<710>>, <<710, 690>>}

GetRunText == pc = "getPage" /\ \E items \in RunItemLists : LoadText(items)
GetRunImages == pc = "images" /\ \E ys \in RunImageLists : LoadImages(ys)

NextRun ==
  Setup \/ GetRunText \/ GetRunImages \/ PageThrows \/ Bands \/ EndPage \/ FlushThrows \/ Ending

SpecRun == Init /\ [][NextRun]_vars /\ WF_vars(NextRun)

----------------------------------------------------------------------------
(* rgbaToPngBuffer and extractImagesFromPage *)

\* JavaScript values: a number, a numeric string such as "2", a string that is
\* no number, undefined
Num(n) == [type |-> "number", val |-> n]
NumStr(n) == [type |-> "string", val |-> n]
Text == [type |-> "text", val |-> 0]
Undef == [type |-> "undefined", val |-> 0]

\* image.data: a byte buffer, or missing
Bytes(b) == [type |-> "bytes", bytes |-> b]
NoData == [type |-> "undefined", bytes |-> <<>>]

\* an image object, and null
ImageObj(w, h, d) == [isNull |-> FALSE, width |-> w, height |-> h, data |-> d]
NullImage == [isNull |-> TRUE, width |-> Undef, height |-> Undef, data |-> NoData]

\* an RGB pixel expanded with alpha 0
ExpandRgbTransparent(rawBuf, width, height) ==
  [j \in 1..(width * height * 4) |->
     IF j % 4 = 0 THEN 0 ELSE rawBuf[3 * ((j - 1) \div 4) + ((j - 1) % 4) + 1]]

\* the loop over i, j: rgba[j..j+2] = rawBuf[i..i+2], rgba[j+3] = 255
ExpandRgb(rawBuf, width, height) ==
  [j \in 1..(width * height * 4) |->
     IF j % 4 = 0 THEN 255 ELSE rawBuf[3 * ((j - 1) \div 4) + ((j - 1) % 4) + 1]]

\* new PNG({ width, height }) with png.data = rgba, written by PNG.sync.write
Png(width, height, rgba) == [png |-> TRUE, width |-> width, height |-> height, data |-> rgba]

rgbaToPngBuffer(image) ==
  IF \/ image.isNull
     \/ image.width.type # "number"
     \/ image.height.type # "number"
     \/ image.data.type # "bytes"
  THEN null
  ELSE LET width == image.width.val
           height == image.height.val
           rawBuf == image.data.bytes
       IN IF Len(rawBuf) = width * height * 4 THEN Png(width, height, rawBuf)
          ELSE IF Len(rawBuf) = width * height * 3
               THEN Png(width, height, ExpandRgb(rawBuf, width, height))
               ELSE null

\* m1 and m2 the other way round
PostMultiply(m1, m2) ==
  <<m2[1] * m1[1] + m2[3] * m1[2],
    m2[2] * m1[1] + m2[4] * m1[2],
    m2[1] * m1[3] + m2[3] * m1[4],
    m2[2] * m1[3] + m2[4] * m1[4],
    m2[1] * m1[5] + m2[3] * m1[6] + m2[5],
    m2[2] * m1[5] + m2[4] * m1[6] + m2[6]>>

\* [a, b, c, d, e, f] is <<m[1], ..., m[6]>>
multiplyMatrix(m1, m2) ==
  <<m1[1] * m2[1] + m1[3] * m2[2],
    m1[2] * m2[1] + m1[4] * m2[2],
    m1[1] * m2[3] + m1[3] * m2[4],
    m1[2] * m2[3] + m1[4] * m2[4],
    m1[1] * m2[5] + m1[3] * m2[6] + m1[5],
    m1[2] * m2[5] + m1[4] * m2[6] + m1[6]>>

\* Number(v ?? 0), and whether it is finite (Number of a non-numeric string is NaN)
NumberOf(v) ==
  CASE v.type = "undefined" -> [finite |-> TRUE, n |-> 0]
    [] v.type = "text" -> [finite |-> FALSE, n |-> 0]
    [] OTHER -> [finite |-> TRUE, n |-> v.val]

\* options.minWidth ?? 80
WithDefault(v) == IF v.type = "undefined" THEN DefaultMin ELSE v.val

\* an error of objs.get that is not caught
Uncaught(r) == [thrown |-> TRUE, image |-> NullImage]

\* .catch(() => null)
Caught(r) == [thrown |-> FALSE, image |-> NullImage]

\* getPdfObject(table, id): the object, or null when objs.get throws
getPdfObject(table, id) ==
  IF id \in DOMAIN table
  THEN [thrown |-> FALSE, image |-> table[id]]
  ELSE Caught([thrown |-> TRUE, image |-> NullImage])

\* getPdfObject(page.objs, name) ?? getPdfObject(page.commonObjs, name)
ResolveNamed(name) ==
  LET first == getPdfObject(objs.page, name)
  IN IF first.thrown \/ ~first.image.isNull THEN first
     ELSE getPdfObject(objs.common, name)

\* an image exactly at the minimum counted as too small
NotAboveMinimum(width, height) == width <= minWidth \/ height <= minHeight

\* width < minWidth || height < minHeight
BelowMinimum(width, height) == width < minWidth \/ height < minHeight

PaintOps == {"paintImageXObject", "paintJpegXObject", "paintInlineImageXObject"}

\* opList.fnArray[i] with opList.argsArray[i]
CurrentOp == opList[opIndex + 1]

Running == call.fn = "extractImagesFromPage" /\ call.state = "running" /\ opIndex < Len(opList)

LogEntry(c, st, imgs) == [ctm |-> c, stack |-> st, images |-> imgs]

\* a restore that leaves the stack as it is
RestorePeek(st, c) ==
  IF st = <<>> THEN [stack |-> st, ctm |-> Identity]
  ELSE [stack |-> st, ctm |-> st[Len(st)]]

\* ctm = stack.pop() ?? [1, 0, 0, 1, 0, 0]
Restore(st, c) ==
  IF st = <<>> THEN [stack |-> st, ctm |-> Identity]
  ELSE [stack |-> SubSeq(st, 1, Len(st) - 1), ctm |-> st[Len(st)]]

\* OPS.save
OpSave ==
  /\ Running
  /\ CurrentOp.fn = "save"
  /\ stack' = Append(stack, ctm)
  /\ opIndex' = opIndex + 1
  /\ opLog' = Append(opLog, LogEntry(ctm, stack', images))
  /\ UNCHANGED <<docVars, minWidth, minHeight, opList, objs, ctm, images, call>>

\* OPS.restore
OpRestore ==
  /\ Running
  /\ CurrentOp.fn = "restore"
  /\ stack' = Restore(stack, ctm).stack
  /\ ctm' = Restore(stack, ctm).ctm
  /\ opIndex' = opIndex + 1
  /\ opLog' = Append(opLog, LogEntry(ctm', stack', images))
  /\ UNCHANGED <<docVars, minWidth, minHeight, opList, objs, images, call>>

\* OPS.transform and OPS.setTransform
OpTransform ==
  /\ Running
  /\ CurrentOp.fn \in {"transform", "setTransform"}
  /\ ctm' = IF Len(CurrentOp.matrix) >= 6
            THEN multiplyMatrix(ctm, SubSeq(CurrentOp.matrix, 1, 6))
            ELSE ctm
  /\ opIndex' = opIndex + 1
  /\ opLog' = Append(opLog, LogEntry(ctm', stack, images))
  /\ UNCHANGED <<docVars, minWidth, minHeight, opList, objs, stack, images, call>>

\* any operator that is no save, restore, transform or paint
OpOther ==
  /\ Running
  /\ CurrentOp.fn \notin {"save", "restore", "transform", "setTransform"} \cup PaintOps
  /\ opIndex' = opIndex + 1
  /\ opLog' = Append(opLog, LogEntry(ctm, stack, images))
  /\ UNCHANGED <<docVars, minWidth, minHeight, opList, objs, stack, ctm, images, call>>

\* the three paint operators
OpPaint ==
  /\ Running
  /\ CurrentOp.fn \in PaintOps
  /\ LET resolved ==
           IF CurrentOp.fn = "paintInlineImageXObject"
           THEN [thrown |-> FALSE, image |-> CurrentOp.image]
           ELSE IF CurrentOp.name # ""
                THEN ResolveNamed(CurrentOp.name)
                ELSE [thrown |-> FALSE, image |-> NullImage]
         imageObj == resolved.image
         width == NumberOf(imageObj.width)
         height == NumberOf(imageObj.height)
         pngBuffer == rgbaToPngBuffer(imageObj)
     IN IF resolved.thrown
        THEN /\ call' = [call EXCEPT !.state = "threw"]
             /\ UNCHANGED <<opIndex, images, opLog>>
        ELSE /\ images' =
                  IF \/ ~width.finite \/ ~height.finite
                     \/ BelowMinimum(width.n, height.n)
                     \/ pngBuffer = null
                  THEN images
                  ELSE Append(images, [pngBuffer |-> pngBuffer, width |-> width.n,
                                       height |-> height.n, x |-> ctm[5], y |-> ctm[6]])
             /\ opIndex' = opIndex + 1
             /\ opLog' = Append(opLog, LogEntry(ctm, stack, images'))
             /\ UNCHANGED call
  /\ UNCHANGED <<docVars, minWidth, minHeight, opList, objs, stack, ctm>>

\* return images
OpsReturn ==
  /\ call.fn = "extractImagesFromPage" /\ call.state = "running"
  /\ opIndex = Len(opList)
  /\ call' = [call EXCEPT !.state = "returned", !.ret = images]
  /\ UNCHANGED <<docVars, opVars>>

\* the transforms of the operator lists: a translation, a rotation with scaling,
\* and an argument array that is too short
Translate == <<1, 0, 0, 1, 3, 700>>
Rotate == <<0, 2, -1, 0, 5, 0>>
TooShort == <<1, 0, 0, 1>>

\* the images: 2 x 2 RGBA, 2 x 1 RGB, 1 x 2 RGBA
Zeros(n) == [j \in 1..n |-> 0]
Image2x2 == ImageObj(Num(2), Num(2), Bytes(Zeros(16)))
Image2x1 == ImageObj(Num(2), Num(1), Bytes(Zeros(6)))
Image1x2 == ImageObj(Num(1), Num(2), Bytes(Zeros(8)))

\* page.objs and page.commonObjs: "img1" is in the page's table, "shared" in the
\* shared table only, "missing" in neither
PageObjs == [page |-> [n \in {"img1"} |-> Image2x2],
             common |-> [n \in {"shared"} |-> Image2x1]]

Op(fn, matrix, name, image) == [fn |-> fn, matrix |-> matrix, name |-> name, image |-> image]

Operators ==
  {Op("save", <<>>, "", NullImage),
   Op("restore", <<>>, "", NullImage),
   Op("transform", Translate, "", NullImage),
   Op("setTransform", Rotate, "", NullImage),
   Op("transform", TooShort, "", NullImage),
   Op("paintImageXObject", <<>>, "img1", NullImage),
   Op("paintJpegXObject", <<>>, "shared", NullImage),
   Op("paintImageXObject", <<>>, "missing", NullImage),
   Op("paintInlineImageXObject", <<>>, "", Image1x2),
   Op("fill", <<>>, "", NullImage)}

MaxOps == 4

OperatorLists == SeqsUpTo(Operators, MaxOps)

\* options.minWidth, options.minHeight: not given, 2 and 2, 2 and 1
MinOptions ==
  {[minWidth |-> Undef, minHeight |-> Undef],
   [minWidth |-> Num(2), minHeight |-> Num(2)],
   [minWidth |-> Num(2), minHeight |-> Num(1)]}

InitOps ==
  /\ DocIdle
  /\ \E o \in MinOptions :
       /\ minWidth = WithDefault(o.minWidth)
       /\ minHeight = WithDefault(o.minHeight)
  /\ opList \in OperatorLists
  /\ objs = PageObjs
  /\ opIndex = 0 /\ stack = <<>> /\ ctm = Identity /\ images = <<>> /\ opLog = <<>>
  /\ call = [fn |-> "extractImagesFromPage", state |-> "running", ret |-> <<>>]

NextOps == OpSave \/ OpRestore \/ OpTransform \/ OpPaint \/ OpOther \/ OpsReturn

SpecOps == InitOps /\ [][NextOps]_vars

\* image objects for rgbaToPngBuffer: 1 or 2 pixels wide, 1 pixel high or higher
MaxBytes == 8
PngBytes == {0, 200}
PngWidths == {Num(1), Num(2), NumStr(2), Undef}
PngHeights == {Num(1), Num(2), Undef}
PngDatas == {NoData} \cup {Bytes(b) : b \in SeqsUpTo(PngBytes, MaxBytes)}
PngImages == {NullImage} \cup {ImageObj(w, h, d) : w \in PngWidths, h \in PngHeights, d \in PngDatas}

InitPng ==
  /\ DocIdle
  /\ OpsIdle
  /\ \E image \in PngImages :
       call = [fn |-> "rgbaToPngBuffer", image |-> image, ret |-> null]

CallRgbaToPngBuffer ==
  /\ call.fn = "rgbaToPngBuffer"
  /\ call' = [call EXCEPT !.fn = "returned", !.ret = rgbaToPngBuffer(call.image)]
  /\ UNCHANGED <<docVars, opVars>>

NextPng == CallRgbaToPngBuffer

SpecPng == InitPng /\ [][NextPng]_vars

----------------------------------------------------------------------------
(* The block interleaver of one band, lines 495-531, run on its own *)

\* blocks, image files and HTML of a band, starting from the counters it finds
InterleaveBand(stemParagraphs, inRegion, qn, page, counts) ==
  LET imagesSorted == SortDescY(inRegion)
      n == Len(imagesSorted)
      count == currentCount(counts, qn)
      blocks == SortBlocks(TextBlocks(stemParagraphs)
                           \o ImageBlocks(imagesSorted, n, qn, page, count))
  IN [html |-> Serialize(blocks),
      counts |-> Put(counts, qn, count + n),
      writes |-> ImageWrites(n, qn, page, count, TRUE)]

BandParagraphYs == {705, 695}
BandParagraphs ==
  {<<>>} \cup {<<[y |-> y, text |-> <<"stem">>]>> : y \in BandParagraphYs}
BandImageYs == {710, 700, 690}
\* a band reaches the interleaver with at least one image (line 490)
BandImageLists ==
  {[i \in DOMAIN ys |-> [id |-> i, y |-> ys[i]]] :
     ys \in SeqsUpTo(BandImageYs, MaxImages) \ {<<>>}}
BandCounts == {<<>>, <<1>>, <<0, 2>>}

InitBand ==
  /\ DocIdle
  /\ OpsIdle
  /\ \E ps \in BandParagraphs, imgs \in BandImageLists, qn \in 1..2,
        page \in 1..MaxPages, counts \in BandCounts :
       call = [fn |-> "band", stemParagraphs |-> ps, imagesInRegion |-> imgs,
               questionNumber |-> qn, pageIndex |-> page,
               perQuestionCounts |-> counts, runs |-> <<>>]

\* one pass of lines 495-531 over the band, on the counters the last pass left
RunBand ==
  /\ call.fn = "band"
  /\ Len(call.runs) < 2
  /\ LET r == InterleaveBand(call.stemParagraphs, call.imagesInRegion,
                             call.questionNumber, call.pageIndex,
                             call.perQuestionCounts)
     IN call' = [call EXCEPT !.perQuestionCounts = r.counts,
                             !.runs = Append(call.runs, r.html)]
  /\ UNCHANGED <<docVars, opVars>>

NextBand == RunBand

SpecBand == InitBand /\ [][NextBand]_vars

----------------------------------------------------------------------------
(* Serialization of a band's blocks, lines 521-526, character by character *)

\* String.replace(/c/g, r) on a string given as its sequence of characters
ReplaceAll(s, c, r) == Flatten([i \in DOMAIN s |-> IF s[i] = c THEN r ELSE <<s[i]>>])

escapeHtmlChars(text) ==
  ReplaceAll(
    ReplaceAll(
      ReplaceAll(
        ReplaceAll(
          ReplaceAll(text, "&", <<"&", "a", "m", "p", ";">>),
          "<", <<"&", "l", "t", ";">>),
        ">", <<"&", "g", "t", ";">>),
      "\"", <<"&", "q", "u", "o", "t", ";">>),
    "'", <<"&", "#", "0", "3", "9", ";">>)

\* path.posix.join('images', examName), 'images' shortened to one letter
imagesDirRelativeOf(examName) == <<"i", "/">> \o examName

\* path.posix.join(imagesDirRelative, filename), the file name shortened to q.png
outputImageRelative(examName) == imagesDirRelativeOf(examName) \o <<"/", "q">>

\* `Question N image M`, shortened
AltText == <<"Q", " ", "1">>

SerializeChars(b) ==
  IF b.kind = "text"
  THEN <<"<", "p", ">">> \o escapeHtmlChars(b.text) \o <<"<", "/", "p", ">">>
  ELSE <<"<", "p", ">", "<", "i", "m", "g", " ", "s", "r", "c", "=", "\"">>
       \o b.src
       \o <<"\"", " ", "a", "l", "t", "=", "\"">>
       \o escapeHtmlChars(b.alt)
       \o <<"\"", " ", "/", ">", "<", "/", "p", ">">>

SerializeHtml(blocks) == Flatten([i \in DOMAIN blocks |-> SerializeChars(blocks[i])])

HtmlTexts ==
  {<<"a">>, <<"<", "p", ">">>, <<"<", "/", "p", ">">>,
   <<"<", "/", "p", ">", "<", "p", ">">>, <<"<", "i", "m", "g", " ", ">">>,
   <<"&", "l", "t", ";">>, <<"\"", ">">>, <<"'">>}

\* the name of the output JSON file without its extension
ExamNames == {<<"a">>, <<"a", "\"", ">", "<", "p", ">">>}

MaxBlocks == 2

HtmlBlocksOf(examName) ==
  {[kind |-> "text", text |-> t, src |-> <<>>, alt |-> <<>>] : t \in HtmlTexts}
    \cup {[kind |-> "image", text |-> <<>>, src |-> outputImageRelative(examName),
           alt |-> AltText]}

InitHtml ==
  /\ DocIdle
  /\ OpsIdle
  /\ \E examName \in ExamNames :
       \E blocks \in SeqsUpTo(HtmlBlocksOf(examName), MaxBlocks) :
         call = [fn |-> "serialize", examName |-> examName, blocks |-> blocks,
                 html |-> <<>>]

CallSerialize ==
  /\ call.fn = "serialize"
  /\ call' = [call EXCEPT !.fn = "serialized", !.html = SerializeHtml(call.blocks)]
  /\ UNCHANGED <<docVars, opVars>>

NextHtml == CallSerialize

SpecHtml == InitHtml /\ [][NextHtml]_vars

----------------------------------------------------------------------------
(* fetcher.ts: dedupeQuestions and fetchAllQuestionsFromCurlScript *)

\* an element of a questions array: an object with its questionId and id, or
\* something that is no object
Item(questionId, id) == [object |-> TRUE, questionId |-> questionId, id |-> id]
NotAnObject == [object |-> FALSE, questionId |-> Undef, id |-> Undef]

NoKey == [field |-> "none", val |-> 0]

\* the key of an item: `questionId:${n}` for a numeric questionId, else `id:${id}`
\* for a numeric id (the merger's copy takes a string id too), else null
KeyOf(item, stringIds) ==
  IF item.questionId.type = "number"
  THEN [field |-> "questionId", val |-> item.questionId.val]
  ELSE IF item.id.type = "number" \/ (stringIds /\ item.id.type = "string")
  THEN [field |-> "id", val |-> item.id.val]
  ELSE NoKey

RECURSIVE DedupeFrom(_, _, _, _, _)
DedupeFrom(items, k, seen, out, stringIds) ==
  IF k > Len(items) THEN out
  ELSE LET item == items[k]
           key == KeyOf(item, stringIds)
       IN IF ~item.object \/ key = NoKey
          THEN DedupeFrom(items, k + 1, seen, Append(out, item), stringIds)
          ELSE IF key \in seen
          THEN DedupeFrom(items, k + 1, seen, out, stringIds)
          ELSE DedupeFrom(items, k + 1, seen \cup {key}, Append(out, item), stringIds)

dedupeQuestions(items) == DedupeFrom(items, 1, {}, <<>>, FALSE)

\* itemCount: number | null
Count(n) == [type |-> "number", val |-> n]
NoCount == [type |-> "null", val |-> 0]

PageEntry(start, itemCount) ==
  [start |-> start, limit |-> call.limit, targetQuestionId |-> start + call.targetOffset,
   itemCount |-> itemCount]

\* the request of this iteration, with what came back for it
Request(start, response, n) ==
  [start |-> start, limit |-> call.limit, response |-> response, itemCount |-> n]

NoResult == [written |-> FALSE, pages |-> <<>>, questions |-> <<>>]

\* the loop goes on for an empty questions array, too
NeverEnds(questionsArray) == FALSE

\* questionsArray.length === 0
EndsLoop(questionsArray) == questionsArray = <<>>

\* where the function is once the loop is left: at the write of the result, or
\* at its end in split mode
AfterLoop == IF call.splitOutput THEN "done" ELSE "write"

AfterIteration ==
  IF call.pageIndex + 1 < call.maxPages THEN "loop" ELSE AfterLoop

startOf(k) == call.start0 + k * call.limit

Iterating == call.fn = "fetchAllQuestionsFromCurlScript" /\ call.pc = "loop"

\* the script is read and parsed, start0 and limit are numbers
StartFetch ==
  /\ call.fn = "fetchAllQuestionsFromCurlScript"
  /\ call.pc = "start"
  /\ call' = [call EXCEPT !.pc = IF 0 < call.maxPages THEN "loop" ELSE AfterLoop]
  /\ UNCHANGED <<docVars, opVars>>

\* no script, no body, a body that is no JSON object, a start or limit that is
\* no finite number
StartThrows ==
  /\ call.fn = "fetchAllQuestionsFromCurlScript"
  /\ call.pc = "start"
  /\ call' = [call EXCEPT !.pc = "failed", !.error = "template"]
  /\ UNCHANGED <<docVars, opVars>>

\* fetch or response.text rejects
FetchRejects ==
  /\ Iterating
  /\ call' = [call EXCEPT !.sent = Append(@, Request(startOf(call.pageIndex), "rejected", 0)),
                          !.pc = "failed", !.error = "fetch"]
  /\ UNCHANGED <<docVars, opVars>>

\* !response.ok
FetchNotOk ==
  /\ Iterating
  /\ call' = [call EXCEPT !.sent = Append(@, Request(startOf(call.pageIndex), "notOk", 0)),
                          !.pc = "failed", !.error = "requestFailed"]
  /\ UNCHANGED <<docVars, opVars>>

\* the response is no JSON, or pickQuestionsArray finds no array in it
FetchNoArray ==
  /\ Iterating
  /\ LET start == startOf(call.pageIndex)
     IN call' = [call EXCEPT !.sent = Append(@, Request(start, "noArray", 0)),
                             !.pages = Append(@, PageEntry(start, NoCount)),
                             !.pc = "failed", !.error = "noQuestionsArray"]
  /\ UNCHANGED <<docVars, opVars>>

\* an array that ends the loop: break
FetchLast(questionsArray) ==
  /\ Iterating
  /\ EndsLoop(questionsArray)
  /\ LET start == startOf(call.pageIndex)
     IN call' = [call EXCEPT !.sent = Append(@, Request(start, "array", Len(questionsArray))),
                             !.pages = Append(@, PageEntry(start, Count(Len(questionsArray)))),
                             !.pc = AfterLoop]
  /\ UNCHANGED <<docVars, opVars>>

\* an array that does not end the loop: the page file is written in split mode,
\* else the page is recorded and its questions are added
FetchPage(questionsArray) ==
  /\ Iterating
  /\ ~EndsLoop(questionsArray)
  /\ LET start == startOf(call.pageIndex)
         entry == PageEntry(start, Count(Len(questionsArray)))
     IN call' =
          IF call.splitOutput
          THEN [call EXCEPT !.sent = Append(@, Request(start, "array", Len(questionsArray))),
                            !.pages = Append(@, entry),
                            !.pageFiles = Append(@, [name |-> call.pageIndex + 1,
                                                     pages |-> <<entry>>,
                                                     questions |-> dedupeQuestions(questionsArray)]),
                            !.pageIndex = @ + 1,
                            !.pc = AfterIteration]
          ELSE [call EXCEPT !.sent = Append(@, Request(start, "array", Len(questionsArray))),
                            !.pages = Append(Append(@, entry), entry),
                            !.allQuestions = @ \o questionsArray,
                            !.pageIndex = @ + 1,
                            !.pc = AfterIteration]
  /\ UNCHANGED <<docVars, opVars>>

\* split mode: the write of the page file throws
FetchPageWriteThrows(questionsArray) ==
  /\ Iterating
  /\ ~EndsLoop(questionsArray)
  /\ call.splitOutput
  /\ LET start == startOf(call.pageIndex)
     IN call' = [call EXCEPT !.sent = Append(@, Request(start, "array", Len(questionsArray))),
                             !.pages = Append(@, PageEntry(start, Count(Len(questionsArray)))),
                             !.pc = "failed", !.error = "pageFile"]
  /\ UNCHANGED <<docVars, opVars>>

\* the result is written
WriteResult ==
  /\ call.fn = "fetchAllQuestionsFromCurlScript"
  /\ call.pc = "write"
  /\ call' = [call EXCEPT !.result = [written |-> TRUE, pages |-> call.pages,
                                      questions |-> dedupeQuestions(call.allQuestions)],
                          !.pc = "done"]
  /\ UNCHANGED <<docVars, opVars>>

WriteResultThrows ==
  /\ call.fn = "fetchAllQuestionsFromCurlScript"
  /\ call.pc = "write"
  /\ call' = [call EXCEPT !.pc = "failed", !.error = "write"]
  /\ UNCHANGED <<docVars, opVars>>

MaxFetchPages == 3
FetchStarts == {0, 5}
FetchLimits == {0, 2}
FetchArrays ==
  {<<>>, <<Item(Num(1), Num(5))>>,
   <<Item(Num(1), Num(5)), Item(Num(2), Num(5))>>,
   <<Item(Undef, Num(5)), NotAnObject>>}

InitFetch ==
  /\ DocIdle
  /\ OpsIdle
  /\ \E maxPages \in 0..MaxFetchPages, start0 \in FetchStarts, limit \in FetchLimits,
        splitOutput \in BOOLEAN :
       call = [fn |-> "fetchAllQuestionsFromCurlScript", pc |-> "start",
               maxPages |-> maxPages, start0 |-> start0, limit |-> limit,
               targetOffset |-> 1, splitOutput |-> splitOutput, pageIndex |-> 0,
               sent |-> <<>>, pages |-> <<>>, allQuestions |-> <<>>,
               pageFiles |-> <<>>, result |-> NoResult, error |-> "none"]

Responses ==
  \/ FetchRejects
  \/ FetchNotOk
  \/ FetchNoArray
  \/ \E questionsArray \in FetchArrays :
       \/ FetchLast(questionsArray)
       \/ FetchPage(questionsArray)
       \/ FetchPageWriteThrows(questionsArray)

NextFetch == StartFetch \/ StartThrows \/ Responses \/ WriteResult \/ WriteResultThrows

\* every await of the run settles
SpecFetch == InitFetch /\ [][NextFetch]_vars /\ WF_vars(NextFetch)

----------------------------------------------------------------------------
(* fetcher.ts: mergeQuestionsFromDir *)

\* the merger's copy of dedupeQuestions: a string id is a key, too
MergerDedupeQuestions(items) == DedupeFrom(items, 1, {}, <<>>, TRUE)

\* what readFile and JSON.parse give for a file: an error, data without a
\* questions array, or data with one
InvalidFile == [kind |-> "invalid", questions |-> <<>>]
NoQuestions == [kind |-> "noArray", questions |-> <<>>]
Questions(qs) == [kind |-> "array", questions |-> qs]

\* jsonFiles.sort for names that are numbers: by parseInt of the name
RECURSIVE SortByNumber(_)
SortByNumber(names) ==
  IF names = {} THEN <<>>
  ELSE LET least == CHOOSE n \in names : \A m \in names : n <= m
       IN <<least>> \o SortByNumber(names \ {least})

Merging == call.fn = "mergeQuestionsFromDir"

\* readdir, the filter for .json and the numeric sort
ReadDir ==
  /\ Merging
  /\ call.pc = "readdir"
  /\ call' = [call EXCEPT !.jsonFiles = SortByNumber(DOMAIN call.dir),
                          !.pc = "files"]
  /\ UNCHANGED <<docVars, opVars>>

\* one iteration of the loop over the files: the questions of a valid file are
\* added, any other file is passed over
ReadFile ==
  /\ Merging
  /\ call.pc = "files"
  /\ call.fileIndex < Len(call.jsonFiles)
  /\ LET data == call.dir[call.jsonFiles[call.fileIndex + 1]]
     IN call' = [call EXCEPT !.allQuestions =
                               IF data.kind = "array" THEN @ \o data.questions ELSE @,
                             !.fileIndex = @ + 1]
  /\ UNCHANGED <<docVars, opVars>>

\* after the last file: the questions are deduped and written
WriteMerged ==
  /\ Merging
  /\ call.pc = "files"
  /\ call.fileIndex = Len(call.jsonFiles)
  /\ call' = [call EXCEPT !.output = [written |-> TRUE,
                                      questions |-> MergerDedupeQuestions(call.allQuestions)],
                          !.pc = "done"]
  /\ UNCHANGED <<docVars, opVars>>

WriteMergedThrows ==
  /\ Merging
  /\ call.pc = "files"
  /\ call.fileIndex = Len(call.jsonFiles)
  /\ call' = [call EXCEPT !.pc = "failed"]
  /\ UNCHANGED <<docVars, opVars>>

MaxFiles == 2
FileNumbers == {1, 2, 10}
MergeArrays ==
  {<<>>,
   <<Item(Num(1), Num(5))>>,
   <<Item(Num(1), Num(6)), Item(Num(2), Num(7))>>,
   <<Item(Num(2), Num(5)), Item(Num(1), Num(5))>>,
   <<Item(Undef, Num(5)), Item(Undef, NumStr(5))>>,
   <<Item(Undef, Undef), NotAnObject, Item(Undef, Undef)>>}
FileContents == {InvalidFile, NoQuestions} \cup {Questions(qs) : qs \in MergeArrays}
Directories ==
  UNION {[names -> FileContents] :
           names \in {s \in SUBSET FileNumbers : Cardinality(s) <= MaxFiles}}

InitMerge ==
  /\ DocIdle
  /\ OpsIdle
  /\ \E dir \in Directories :
       call = [fn |-> "mergeQuestionsFromDir", pc |-> "readdir", dir |-> dir,
               jsonFiles |-> <<>>, fileIndex |-> 0, allQuestions |-> <<>>,
               output |-> [written |-> FALSE, questions |-> <<>>]]

NextMerge == ReadDir \/ ReadFile \/ WriteMerged \/ WriteMergedThrows

SpecMerge == InitMerge /\ [][NextMerge]_vars

----------------------------------------------------------------------------
(* prettifier.ts: localizeImagesInJsonFile *)

\* the src of an <img> tag: a remote URL with or without an extension in its
\* path, a data:image URI, or a path that is local already
Http(id, ext) == [kind |-> "http", id |-> id, ext |-> ext]
DataImage(id) == [kind |-> "data", id |-> id, ext |-> "png"]
LocalPath == [kind |-> "local", id |-> 0, ext |-> "png"]

\* rewriteImagesInString starts a task for a src that is remote or a data URI
IsEnqueued(src) == src.kind \in {"http", "data"}

\* `${hash}.${ext}`, the hash being that of the URL
FileName(url, ext) == [hash |-> url.id, ext |-> ext]

\* the async function of line 156 runs to its first await when it is called:
\* the cache is looked up, and on a miss fs.mkdir is awaited (a hit ends the
\* task; there is none, as nothing is cached before the walk is over)
StartTask(url, cache) ==
  [url |-> url, at |-> IF url \in DOMAIN cache THEN "done" ELSE "mkdir", ext |-> "none"]

RECURSIVE EnqueueAll(_, _)
EnqueueAll(tags, cache) ==
  IF tags = <<>> THEN <<>>
  ELSE (IF IsEnqueued(Head(tags)) THEN <<StartTask(Head(tags), cache)>> ELSE <<>>)
       \o EnqueueAll(Tail(tags), cache)

Localizing == call.fn = "localizeImagesInJsonFile"

\* walkAndRewrite: synchronous, one task per remote <img>
WalkAndRewrite ==
  /\ Localizing
  /\ call.pc = "walk"
  /\ call' = [call EXCEPT !.tasks = EnqueueAll(call.tags, call.cache), !.pc = "tasks"]
  /\ UNCHANGED <<docVars, opVars>>

TaskAt(t, at) == Localizing /\ call.pc = "tasks" /\ t \in DOMAIN call.tasks /\ call.tasks[t].at = at

\* fs.mkdir is done: a data URI is decoded, a remote URL is fetched
TaskMkdir(t) ==
  /\ TaskAt(t, "mkdir")
  /\ call' = IF call.tasks[t].url.kind = "data"
             THEN [call EXCEPT !.tasks[t].ext = call.tasks[t].url.ext,
                               !.tasks[t].at = "access"]
             ELSE [call EXCEPT !.downloads = Append(@, call.tasks[t].url),
                               !.tasks[t].at = "fetch"]
  /\ UNCHANGED <<docVars, opVars>>

\* the response is OK: the extension is that of the URL, or that of the content
\* type, or bin
TaskResponse(t, contentTypeExt) ==
  /\ TaskAt(t, "fetch")
  /\ call' = [call EXCEPT !.tasks[t].ext = IF call.tasks[t].url.ext # "none"
                                           THEN call.tasks[t].url.ext
                                           ELSE contentTypeExt,
                          !.tasks[t].at = "access"]
  /\ UNCHANGED <<docVars, opVars>>

\* fetch rejects or the response is not OK: the task rejects
TaskFetchFails(t) ==
  /\ TaskAt(t, "fetch")
  /\ call' = [call EXCEPT !.tasks[t].at = "failed"]
  /\ UNCHANGED <<docVars, opVars>>

\* fs.access: the file is there and the URL is cached, or the file is written
TaskAccess(t) ==
  /\ TaskAt(t, "access")
  /\ LET file == FileName(call.tasks[t].url, call.tasks[t].ext)
     IN call' = IF file \in call.files
                THEN [call EXCEPT !.cache = Put(@, call.tasks[t].url, file),
                                  !.tasks[t].at = "done"]
                ELSE [call EXCEPT !.tasks[t].at = "write"]
  /\ UNCHANGED <<docVars, opVars>>

\* fs.writeFile of the image is done: the URL is cached
TaskWrite(t) ==
  /\ TaskAt(t, "write")
  /\ LET file == FileName(call.tasks[t].url, call.tasks[t].ext)
     IN call' = [call EXCEPT !.files = @ \cup {file},
                             !.cache = Put(@, call.tasks[t].url, file),
                             !.tasks[t].at = "done"]
  /\ UNCHANGED <<docVars, opVars>>

\* applyRewritesToString on every tag: the cached path, or the tag as it is
RewrittenSrc(src, cache) ==
  IF src \in DOMAIN cache THEN [local |-> TRUE, file |-> cache[src]]
  ELSE [local |-> src.kind = "local", file |-> FileName(src, src.ext)]

\* Promise.all is fulfilled: walkAndApply and the write of the JSON
WalkAndApply ==
  /\ Localizing
  /\ call.pc = "tasks"
  /\ \A t \in DOMAIN call.tasks : call.tasks[t].at = "done"
  /\ call' = [call EXCEPT !.output = [i \in DOMAIN call.tags |->
                                        RewrittenSrc(call.tags[i], call.cache)],
                          !.pc = "done"]
  /\ UNCHANGED <<docVars, opVars>>

\* Promise.all rejects with the first task that rejects
TasksReject ==
  /\ Localizing
  /\ call.pc = "tasks"
  /\ \E t \in DOMAIN call.tasks : call.tasks[t].at = "failed"
  /\ call' = [call EXCEPT !.pc = "failed"]
  /\ UNCHANGED <<docVars, opVars>>

MaxTags == 3
Srcs == {Http(1, "png"), Http(2, "none"), DataImage(3), LocalPath}
ContentTypeExts == {"png", "bin"}
EmptyCache == [u \in {} |-> FileName(LocalPath, "png")]

InitLocalize ==
  /\ DocIdle
  /\ OpsIdle
  /\ \E tags \in SeqsUpTo(Srcs, MaxTags) :
       call = [fn |-> "localizeImagesInJsonFile", pc |-> "walk", tags |-> tags,
               tasks |-> <<>>, cache |-> EmptyCache, downloads |-> <<>>,
               files |-> {}, output |-> <<>>]

TaskSteps ==
  \E t \in 1..MaxTags :
    \/ TaskMkdir(t)
    \/ \E contentTypeExt \in ContentTypeExts : TaskResponse(t, contentTypeExt)
    \/ TaskFetchFails(t)
    \/ TaskAccess(t)
    \/ TaskWrite(t)

NextLocalize == WalkAndRewrite \/ TaskSteps \/ WalkAndApply \/ TasksReject

SpecLocalize == InitLocalize /\ [][NextLocalize]_vars

----------------------------------------------------------------------------
(* The claims *)

Serialized(e) == e.state = "serialized"
Filtered(e) == e.state \in {"noImages", "serialized"}
PlacedIn(e, img) == img \in Range(e.images)

\* y lies in the band of anchor i (0-based) of the page: anchors[i+1].y < y <= anchors[i].y
InBandOf(i, y) ==
  /\ y <= anchors[i + 1].y
  /\ (i + 2 <= Len(anchors) => y > anchors[i + 2].y)

\* C1: an image is placed in the band of anchor i exactly when
\* anchor[i+1].y < y <= anchor[i].y (no lower bound for the last anchor); so no
\* image is placed in two bands, and an image at an anchor's y is placed in that
\* anchor's band and not in the band of the anchor before it.
C1_HalfOpenBands ==
  pc = "bands" =>
    /\ \A e \in Range(bandLog) : Filtered(e) =>
         \A img \in Range(pageImages) : PlacedIn(e, img) <=> InBandOf(e.a, img.y)
    /\ \A img \in Range(pageImages) :
         Cardinality({e \in Range(bandLog) : PlacedIn(e, img)}) <= 1
    /\ \A e \in Range(bandLog) : \A img \in Range(e.images) :
         e.a + 2 <= Len(anchors) => img.y # anchors[e.a + 2].y

\* an image at the y of the second anchor was placed in the second anchor's band
C1_Witness ==
  /\ pc = "bands"
  /\ \E e \in Range(bandLog) : \E img \in Range(e.images) :
       e.a >= 1 /\ img.y = anchors[e.a + 1].y

\* C2: on a page with anchors, every extracted image is assigned to exactly one
\* anchor; an image inside no band is assigned through the nearest-anchor fallback.
C2_EveryImageAssigned ==
  (pc = "bands" /\ a = Len(anchors) /\ anchors # <<>>) =>
    \A img \in Range(pageImages) :
      Cardinality({e \in Range(bandLog) : PlacedIn(e, img)}) = 1

\* C3: findBestAnchorForImage returns null iff there is no anchor; with an anchor
\* at or above the image it returns the nearest of those, whatever the
\* coordinates; otherwise the nearest anchor below.
C3_AboveAlwaysPreferred ==
  (call.fn = "returned" /\ "imageY" \in DOMAIN call) =>
    LET as == call.anchors
        y == call.imageY
        above == {i \in DOMAIN as : as[i].y >= y}
    IN /\ (call.ret = null) <=> (as = <<>>)
       /\ as # <<>> =>
            /\ call.ret \in Range(as)
            /\ IF above # {}
               THEN /\ call.ret.y >= y
                    /\ \A i \in above : call.ret.y - y <= as[i].y - y
               ELSE \A i \in DOMAIN as : y - call.ret.y <= y - as[i].y

StartsAsNoise(text) == text[1] \in MarkerWords \cup {"Topic 1", "Most Voted", "Correct Answer:"}
StartsAsOption(text) == text[1] \in {"A.", "B)"} /\ Len(text) > 1

\* the lines of the range before its first option line that are no noise lines
StemLinesOf(ls, startIndex, endIndexExclusive) ==
  LET options == {i \in (startIndex + 1)..endIndexExclusive : StartsAsOption(ls[i].text)}
      last == IF options = {} THEN endIndexExclusive
              ELSE (CHOOSE i \in options : \A j \in options : i <= j) - 1
      NotNoise(l) == ~StartsAsNoise(l.text)
  IN SelectSeq(SubSeq(ls, startIndex + 1, last), NotNoise)

\* C5: a stem line is appended to the current paragraph exactly when its gap to the
\* previous accepted line is at most 18, and starts a new paragraph (whose y is its
\* own) exactly when that gap exceeds 18.
C5_GapToPreviousLine ==
  (call.fn = "returned" /\ "startIndex" \in DOMAIN call) =>
    LET accepted == StemLinesOf(call.lines, call.startIndex, call.endIndexExclusive)
    IN \A k \in 2..Len(accepted) :
         (\E p \in Range(call.ret) : p.y = accepted[k].y)
           <=> (accepted[k - 1].y - accepted[k].y > 18)

\* C6: the paragraphs are built only from the lines of the range that are no noise
\* lines and come before the first option line of the range: their texts, put
\* together, are the texts of exactly those lines, and each starts at one of them.
C6_OnlyStemLines ==
  (call.fn = "returned" /\ "startIndex" \in DOMAIN call) =>
    LET accepted == StemLinesOf(call.lines, call.startIndex, call.endIndexExclusive)
    IN /\ Flatten([i \in DOMAIN call.ret |-> call.ret[i].text])
            = Flatten([i \in DOMAIN accepted |-> accepted[i].text])
       /\ \A p \in Range(call.ret) : \E l \in Range(accepted) : l.y = p.y

\* a range with a noise line, a stem line, an option line and a line after it
C6_Witness ==
  /\ call.fn = "returned" /\ "startIndex" \in DOMAIN call
  /\ call.ret # <<>>
  /\ \E i, j, k \in (call.startIndex + 1)..call.endIndexExclusive :
       /\ isNoiseLine(call.lines[i].text)
       /\ isOptionLine(call.lines[j].text)
       /\ j < k
       /\ ~isNoiseLine(call.lines[k].text)

\* C7: the anchors of a line list of groupTextIntoLines are strictly descending in
\* y and strictly ascending in lineIndex, so no two refer to the same line.
C7_AnchorsOrdered ==
  (call.fn = "returned" /\ "items" \in DOMAIN call) =>
    \A i \in 1..(Len(call.anchors) - 1) :
      /\ call.anchors[i].y > call.anchors[i + 1].y
      /\ call.anchors[i].lineIndex < call.anchors[i + 1].lineIndex

\* two anchors, the second from a fragment that came first in the text content
C7_Witness ==
  /\ call.fn = "returned" /\ "items" \in DOMAIN call
  /\ Len(call.anchors) = 2
  /\ call.items[1].y < call.items[Len(call.items)].y

\* C8: no two anchors of a page carry the same questionNumber.
C8_UniqueQuestionNumbers ==
  (call.fn = "returned" /\ "items" \in DOMAIN call) =>
    \A i, j \in DOMAIN call.anchors :
      i # j => call.anchors[i].questionNumber # call.anchors[j].questionNumber

\* C9: the line range handed to the paragraph builder for a band starts after the
\* band's anchor line, holds the line of no anchor, and the ranges of two bands
\* do not overlap.
C9_BandsExcludeAnchors ==
  pc = "bands" =>
    /\ \A e \in Range(bandLog) : Serialized(e) =>
         /\ e.startIndex = anchors[e.a + 1].lineIndex + 1
         /\ e.endIndexExclusive <= Len(lines)
         /\ \A k \in DOMAIN anchors :
              ~(e.startIndex <= anchors[k].lineIndex
                /\ anchors[k].lineIndex < e.endIndexExclusive)
    /\ \A i, j \in DOMAIN bandLog :
         (i # j /\ Serialized(bandLog[i]) /\ Serialized(bandLog[j])) =>
           \A k \in bandLog[i].startIndex..(bandLog[i].endIndexExclusive - 1) :
             ~(bandLog[j].startIndex <= k /\ k < bandLog[j].endIndexExclusive)

\* two bands of a page were handed to the paragraph builder, one with lines
C9_Witness ==
  /\ pc = "bands"
  /\ \E i, j \in DOMAIN bandLog :
       /\ i # j /\ Serialized(bandLog[i]) /\ Serialized(bandLog[j])
       /\ bandLog[j].startIndex < bandLog[j].endIndexExclusive

WritesOf(q) == {w \in imageWrites : w.filename.q = q}

\* C10: for every question the ordinals given out over the run are 1, 2, 3, ...
\* without gap or repetition, in page order and, within a band, in descending
\* image y; so every image file written has a filename of its own.
C10_OrdinalsRunOn ==
  /\ \A q \in (DOMAIN perQuestionCounts) \cup {w.filename.q : w \in imageWrites} :
       /\ {w.filename.n : w \in WritesOf(q)} = 1..Get(perQuestionCounts, q)
       /\ Cardinality(WritesOf(q)) = Get(perQuestionCounts, q)
       /\ \A v, w \in WritesOf(q) :
            v.filename.n < w.filename.n => v.filename.p <= w.filename.p
  /\ Cardinality({w.filename : w \in {v \in imageWrites : v.ok}}) = linkedImages
  /\ \A e \in Range(bandLog) : \A i, j \in DOMAIN e.blocks :
       (e.blocks[i].kind = "image" /\ e.blocks[j].kind = "image"
          /\ e.blocks[i].src.n < e.blocks[j].src.n) => e.blocks[i].y >= e.blocks[j].y

\* a question got image 1 on page 1 and a later image on page 2
C10_Witness ==
  /\ pc = "done"
  /\ \E v, w \in imageWrites :
       /\ v.filename.q = w.filename.q
       /\ v.filename.p = 1 /\ v.filename.n = 1 /\ v.ok
       /\ w.filename.p = 2 /\ w.filename.n > 1 /\ w.ok

\* the HTML the interleaver makes of the stem paragraphs of band i (0-based) alone
StemHtmlOf(i) ==
  Serialize(SortBlocks(TextBlocks(
    buildStemParagraphs(lines, anchors[i + 1].lineIndex + 1,
                        IF i + 2 <= Len(anchors) THEN anchors[i + 2].lineIndex
                        ELSE Len(lines)))))

\* C11: a band of a known question that holds stem text and no image sets the
\* question's content to the HTML of its paragraphs (the content is replaced
\* whenever the band's HTML is non-empty, image or not).
C11_TextOnlyBandReplacesContent ==
  (pc = "bands" /\ bandLog # <<>>) =>
    LET e == bandLog[Len(bandLog)]
    IN (e.state = "noImages" /\ StemHtmlOf(e.a) # <<>>) =>
         questions[QuestionIndex(questions, e.questionNumber)].content = StemHtmlOf(e.a)

\* C12: a run changes nothing of the questions but content: the array keeps its
\* length and order and every other field its value, and a question's content
\* changes only in a band of an anchor with its number that holds an image; the
\* JSON written at the end is that array.
C12_OnlyContentOfImageBands ==
  /\ [](pc \notin {"start", "failed"} =>
          /\ Len(questions) = Len(parsed.items)
          /\ \A i \in DOMAIN questions :
               /\ questions[i].id = parsed.items[i].id
               /\ questions[i].questionNumber = parsed.items[i].questionNumber
               /\ questions[i].content # parsed.items[i].content =>
                    \E w \in imageWrites : w.filename.q = questions[i].questionNumber
          /\ pc = "done" => outputJson = JsonFile(questions))
  /\ [][pc # "start" =>
          \A i \in DOMAIN questions :
            questions'[i].content # questions[i].content =>
              /\ pc = "bands" /\ a < Len(anchors)
              /\ anchors[a + 1].questionNumber = questions[i].questionNumber
              /\ \E k \in DOMAIN pageImages : InBandOf(a, pageImages[k].y)]_vars

C12_Witness ==
  /\ pc = "done"
  /\ Len(questions) = 2
  /\ questions[1].content # parsed.items[1].content
  /\ questions[2] = parsed.items[2]
  /\ outputJson = JsonFile(questions)

\* C13: when the processing of a page begins, the JSON on disk holds every content
\* update made on the pages before it, whichever pages had images and whichever
\* pages failed.
C13_DiskHasEarlierPages ==
  (pc = "getPage" /\ pageIndex <= numPages) =>
    \A i \in DOMAIN questions :
      questions[i].content # parsed.items[i].content =>
        /\ outputJson.written
        /\ outputJson.questions[i].content = questions[i].content

Final == pc = "done" \/ (pc = "failed" /\ error = "finalWrite")

InPageLoop == pc \in {"getPage", "images", "bands"}

PagesInOrder ==
  /\ pageIndex' # pageIndex =>
       (pageIndex' = pageIndex + 1 /\ pageIndex <= numPages /\ pc' = "getPage")
  /\ (pc' = "getPage" /\ InPageLoop) => pageIndex' = pageIndex + 1
  /\ (InPageLoop /\ pc' \in {"done", "failed"}) =>
       (pc = "getPage" /\ pageIndex = numPages + 1)

\* C14: the pages are attempted once each in ascending order (pageIndex only ever
\* steps by one, into a fresh page, and the loop is left after page N only), and
\* whichever pages throw, the run reaches the final write, and the report after it
\* unless the final write itself throws.
C14_EveryPageAttempted ==
  /\ [][PagesInOrder]_vars
  /\ [](pc \in {"images", "bands"} => pageIndex \in 1..numPages)
  /\ (pc = "getPage" /\ pageIndex = 1) ~> Final

C14_Witness ==
  /\ pc = "done"
  /\ numPages = 2
  /\ \E w \in imageWrites : w.filename.p = 1 /\ ~w.ok
  /\ \E w \in imageWrites : w.filename.p = 2 /\ w.ok
  /\ outputJson = JsonFile(questions)

\* C15: with an input JSON whose questions field is missing or not an array the run
\* fails at once: no page is processed, no directory or image file is made, and
\* the output JSON is not written.
C15_InvalidJsonStopsRun ==
  parsed.type # "array" =>
    /\ pc \in {"start", "failed"}
    /\ pc = "failed" => error = "invalidJson"
    /\ pageIndex = 1 /\ lines = <<>> /\ pageImages = <<>>
    /\ ~imagesDir
    /\ imageWrites = {}
    /\ outputJson = NoFile

C15_Witness ==
  /\ parsed.type = "undefined"
  /\ pc = "failed"
  /\ error = "invalidJson"
  /\ ~imagesDir

\* the transform, the stack and the images before operator j (1-based) is interpreted
CtmBefore(j) == IF j = 1 THEN Identity ELSE opLog[j - 1].ctm
StackBefore(j) == IF j = 1 THEN <<>> ELSE opLog[j - 1].stack
ImagesBefore(j) == IF j = 1 THEN <<>> ELSE opLog[j - 1].images
Untouched(j) ==
  /\ opLog[j].ctm = CtmBefore(j)
  /\ opLog[j].stack = StackBefore(j)
  /\ opLog[j].images = ImagesBefore(j)

\* the positions of the saves among the first k operators that no restore has matched
RECURSIVE OpenSaves(_)
OpenSaves(k) ==
  IF k = 0 THEN <<>>
  ELSE LET before == OpenSaves(k - 1)
       IN CASE opList[k].fn = "save" -> Append(before, k)
            [] opList[k].fn = "restore" /\ before # <<>> ->
                 SubSeq(before, 1, Len(before) - 1)
            [] OTHER -> before

\* C16: right after a restore the current transform is the one that was current at
\* the matching save, or the identity when no save is open; the stack depth is
\* always the number of saves not yet matched by a restore.
C16_RestoreUndoesSave ==
  \A j \in DOMAIN opLog :
    /\ Len(opLog[j].stack) = Len(OpenSaves(j))
    /\ opList[j].fn = "restore" =>
         LET open == OpenSaves(j - 1)
         IN IF open = <<>> THEN opLog[j].ctm = Identity
            ELSE opLog[j].ctm = CtmBefore(open[Len(open)])

C16_Witness ==
  /\ call.state = "returned"
  /\ \E j \in DOMAIN opLog :
       /\ opList[j].fn = "restore"
       /\ OpenSaves(j - 1) # <<>>
       /\ CtmBefore(j) # opLog[j].ctm
       /\ opLog[j].ctm # Identity

\* compose(c, m) as the specification writes it, c with subscript 1, m with subscript 2
Compose(c, m) ==
  LET a1 == c[1] b1 == c[2] c1 == c[3] d1 == c[4] e1 == c[5] f1 == c[6]
      a2 == m[1] b2 == m[2] c2 == m[3] d2 == m[4] e2 == m[5] f2 == m[6]
  IN <<a1 * a2 + c1 * b2, b1 * a2 + d1 * b2, a1 * c2 + c1 * d2, b1 * c2 + d1 * d2,
       a1 * e2 + c1 * f2 + e1, b1 * e2 + d1 * f2 + f1>>

IsTransform(op) == op.fn \in {"transform", "setTransform"} /\ Len(op.matrix) = 6

\* C17: a transform or setTransform operator with six values m replaces the current
\* transform c by compose(c, m); a painted image gets the (e, f) of the current
\* transform as its origin; composing with the identity on either side changes
\* nothing.
C17_TransformComposes ==
  /\ \A j \in DOMAIN opLog :
       /\ IsTransform(opList[j]) => opLog[j].ctm = Compose(CtmBefore(j), opList[j].matrix)
       /\ Len(opLog[j].images) > Len(ImagesBefore(j)) =>
            LET img == opLog[j].images[Len(opLog[j].images)]
            IN img.x = CtmBefore(j)[5] /\ img.y = CtmBefore(j)[6]
  /\ multiplyMatrix(ctm, Identity) = ctm
  /\ multiplyMatrix(Identity, ctm) = ctm

C17_Witness ==
  /\ call.state = "returned"
  /\ \E j \in DOMAIN opLog :
       /\ IsTransform(opList[j])
       /\ Compose(CtmBefore(j), opList[j].matrix) # Compose(opList[j].matrix, CtmBefore(j))
  /\ \E k \in DOMAIN images : images[k].x # 0 /\ images[k].y # 0

\* the object a paint operator refers to: its inline payload, or the named object
\* of the page's table or else of the shared table
Unresolved(op) ==
  /\ op.fn \in {"paintImageXObject", "paintJpegXObject"}
  /\ op.name \notin (DOMAIN objs.page) \cup (DOMAIN objs.common)
PaintedObject(op) ==
  IF op.fn = "paintInlineImageXObject" THEN op.image
  ELSE IF op.name \in DOMAIN objs.page THEN objs.page[op.name]
       ELSE IF op.name \in DOMAIN objs.common THEN objs.common[op.name]
            ELSE NullImage
IsPaint(op) == op.fn \in {"paintImageXObject", "paintJpegXObject", "paintInlineImageXObject"}
LargeEnough(op) ==
  /\ ~PaintedObject(op).isNull
  /\ PaintedObject(op).width.val >= minWidth
  /\ PaintedObject(op).height.val >= minHeight

\* C18: a paint operator yields an image only if the image is at least minWidth
\* wide and minHeight high (80 and 80 when the options give nothing), an image
\* exactly at the minimum is kept, and an image below the minimum in either
\* dimension is dropped with the transform, the stack and the images collected so
\* far unchanged.
C18_MinimumSize ==
  \A j \in DOMAIN opLog :
    IsPaint(opList[j]) =>
      /\ Len(opLog[j].images) > Len(ImagesBefore(j)) => LargeEnough(opList[j])
      /\ ~LargeEnough(opList[j]) => Untouched(j)
      /\ (/\ ~PaintedObject(opList[j]).isNull
          /\ PaintedObject(opList[j]).width.val = minWidth
          /\ PaintedObject(opList[j]).height.val = minHeight) =>
           Len(opLog[j].images) = Len(ImagesBefore(j)) + 1

C18_Witness ==
  /\ call.state = "returned"
  /\ minWidth = 2 /\ minHeight = 2
  /\ \E j, k \in DOMAIN opLog :
       /\ IsPaint(opList[j]) /\ PaintedObject(opList[j]) = Image2x2
       /\ Len(opLog[j].images) = Len(ImagesBefore(j)) + 1
       /\ IsPaint(opList[k]) /\ PaintedObject(opList[k]) = Image1x2
       /\ opLog[k].images = ImagesBefore(k)
       /\ CtmBefore(k) # Identity

\* C19: rgbaToPngBuffer takes a buffer of width*height*4 bytes as it is, expands a
\* buffer of width*height*3 bytes so that pixel k becomes (R_k, G_k, B_k, 255), and
\* returns null for every other length, for a missing image, for a width or
\* height that is no number and for missing data.
C19_PngBufferLengths ==
  call.fn = "returned" =>
    LET image == call.image
        valid == /\ ~image.isNull
                 /\ image.width.type = "number" /\ image.height.type = "number"
                 /\ image.data.type = "bytes"
        n == image.width.val * image.height.val
        raw == image.data.bytes
    IN IF valid /\ Len(raw) = n * 4
       THEN /\ call.ret # null
            /\ call.ret.data = raw
       ELSE IF valid /\ Len(raw) = n * 3
            THEN /\ call.ret # null
                 /\ Len(call.ret.data) = n * 4
                 /\ \A k \in 0..(n - 1) :
                      /\ call.ret.data[4 * k + 1] = raw[3 * k + 1]
                      /\ call.ret.data[4 * k + 2] = raw[3 * k + 2]
                      /\ call.ret.data[4 * k + 3] = raw[3 * k + 3]
                      /\ call.ret.data[4 * k + 4] = 255
            ELSE call.ret = null

C19_Witness ==
  /\ call.fn = "returned"
  /\ call.image.width = Num(2) /\ call.image.height = Num(1)
  /\ call.image.data = Bytes(<<0, 200, 0, 200, 200, 0>>)
  /\ call.ret # null
  /\ call.ret.data = <<0, 200, 0, 255, 200, 200, 0, 255>>

\* C20: a paint operator whose named object is in neither table yields no image
\* and leaves the transform and the stack as they are; the interpretation goes on
\* and returns the images of the other paint operators.
C20_UnresolvedImageSkipped ==
  /\ call.fn = "extractImagesFromPage" => call.state # "threw"
  /\ \A j \in DOMAIN opLog : Unresolved(opList[j]) => Untouched(j)
  /\ (call.fn = "extractImagesFromPage" /\ call.state = "returned") =>
       /\ Len(opLog) = Len(opList)
       /\ call.ret = images
       /\ Len(call.ret) = Cardinality({j \in DOMAIN opList :
                                         IsPaint(opList[j]) /\ LargeEnough(opList[j])})

C20_Witness ==
  /\ call.state = "returned"
  /\ \E j, k \in DOMAIN opList :
       /\ j < k
       /\ Unresolved(opList[j])
       /\ CtmBefore(j) # Identity
       /\ IsPaint(opList[k]) /\ LargeEnough(opList[k])
  /\ Len(call.ret) >= 1

\* no line of the page carries a question marker
NoMarkerOn(ls) ==
  \A i \in DOMAIN ls : \A k \in DOMAIN ls[i].text : ls[i].text[k] \notin MarkerWords

\* C21: while a page without any anchor is processed, no question's content, no
\* image file, no ordinal counter, and neither the updated set nor the linked
\* count changes, whatever images the page holds.
C21_NoAnchorNoChange ==
  [][(pc \in {"images", "bands"} /\ NoMarkerOn(lines)) =>
       /\ questions' = questions
       /\ imageWrites' = imageWrites
       /\ perQuestionCounts' = perQuestionCounts
       /\ updated' = updated
       /\ linkedImages' = linkedImages]_vars

C21_Witness ==
  /\ pc = "bands"
  /\ lines # <<>>
  /\ NoMarkerOn(lines)
  /\ a = Len(anchors)
  /\ Len(pageImages) = 2
  /\ pageImages[1].y <= lines[1].y

\* C22: a second pass of the interleaver over the same band (same paragraphs,
\* same anchor, same images, same page) gives the same HTML as the first.
C22_SecondRunSameHtml ==
  (call.fn = "band" /\ Len(call.runs) = 2) => call.runs[2] = call.runs[1]

\* round(y/2)*2 for an integer y: an even y stays, an odd y goes up by one
RoundedToEven(y) == IF y % 2 = 0 THEN y ELSE y + 1

\* groupTextIntoLines has just returned call.lines
Grouped == call.fn = "extractQuestionAnchorsFromLines"

NonEmptyFragments == {i \in DOMAIN call.items : call.items[i].str # <<>>}

\* the lines a fragment belongs to by its rounded y
LinesOf(i) ==
  {l \in DOMAIN call.lines :
     RoundedToEven(call.lines[l].y) = RoundedToEven(call.items[i].y)}

FragmentsOf(l) ==
  {i \in DOMAIN call.items :
     /\ call.items[i].str # <<>>
     /\ RoundedToEven(call.items[i].y) = RoundedToEven(call.lines[l].y)}

\* the words of line l are those of its fragments, a fragment with a smaller x
\* before one with a larger x
AscendingX(l) ==
  LET members == FragmentsOf(l)
      text == call.lines[l].text
  IN /\ Len(text) = Cardinality(members)
     /\ \A v \in {call.items[i].x : i \in members} :
          LET lo == Cardinality({j \in members : call.items[j].x < v})
              hi == Cardinality({j \in members : call.items[j].x <= v})
              at == {j \in members : call.items[j].x = v}
          IN \A w \in {call.items[j].str : j \in at} :
               Cardinality({p \in (lo + 1)..hi : <<text[p]>> = w})
                 = Cardinality({k \in at : call.items[k].str = w})

\* C23: groupTextIntoLines puts two non-empty fragments in one line exactly when
\* round(y/2)*2 is the same for both, every non-empty fragment in exactly one
\* line, the fragments of a line by ascending x, returns no line with empty
\* text, and returns the lines in strictly descending y.
C23_LinesPartitionFragments ==
  Grouped =>
    /\ \A i \in NonEmptyFragments : Cardinality(LinesOf(i)) = 1
    /\ \A l \in DOMAIN call.lines :
         /\ call.lines[l].text # <<>>
         /\ FragmentsOf(l) # {}
         /\ AscendingX(l)
    /\ \A l \in 1..(Len(call.lines) - 1) : call.lines[l].y > call.lines[l + 1].y

\* y = 699 and y = 700 share a line, given right to left, above a line at y = 697
C23_Witness ==
  /\ Grouped
  /\ Len(call.lines) = 2
  /\ Len(call.items) = 3
  /\ NonEmptyFragments = 1..3
  /\ call.items[1].y = 700 /\ call.items[1].x = 50
  /\ call.items[2].y = 697
  /\ call.items[3].y = 699 /\ call.items[3].x = 0
  /\ call.lines[1].text = call.items[3].str \o call.items[1].str
  /\ call.items[1].str # call.items[3].str

StartsWith(s, i, t) ==
  /\ i + Len(t) - 1 <= Len(s)
  /\ SubSeq(s, i, i + Len(t) - 1) = t

\* the position after the tag that begins at position i: the first > outside a
\* double-quoted attribute value
RECURSIVE TagEnd(_, _, _)
TagEnd(s, i, quoted) ==
  IF i > Len(s) THEN i
  ELSE IF s[i] = "\"" THEN TagEnd(s, i + 1, ~quoted)
  ELSE IF s[i] = ">" /\ ~quoted THEN i + 1
  ELSE TagEnd(s, i + 1, quoted)

\* the kinds of the top-level <p> elements of s from position i on, read as an
\* HTML parser reads them: a <p> inside an open <p> closes it and opens the next
\* one, and a <p> holding an <img> is an image block. open says whether a <p> is
\* open, and kinds has the blocks found so far.
RECURSIVE ReadKinds(_, _, _, _)
ReadKinds(s, i, open, kinds) ==
  IF i > Len(s) THEN kinds
  ELSE IF StartsWith(s, i, <<"<", "p", ">">>)
  THEN ReadKinds(s, i + 3, TRUE, Append(kinds, "text"))
  ELSE IF StartsWith(s, i, <<"<", "/", "p", ">">>)
  THEN ReadKinds(s, i + 4, FALSE, kinds)
  ELSE IF StartsWith(s, i, <<"<", "i", "m", "g", " ">>)
  THEN ReadKinds(s, TagEnd(s, i + 5, FALSE), open,
                 IF open THEN [kinds EXCEPT ![Len(kinds)] = "image"] ELSE kinds)
  ELSE ReadKinds(s, i + 1, open, kinds)

KindsOf(blocks) == [i \in DOMAIN blocks |-> blocks[i].kind]

\* C24: the top-level <p> elements of the HTML serialized from a band's blocks
\* are as many as the blocks, in the same order and of the same kinds.
C24_RoundTrip ==
  call.fn = "serialized" => ReadKinds(call.html, 1, FALSE, <<>>) = KindsOf(call.blocks)

\* the same for a document name without quotes or markup: text is escaped
C24_RoundTripPlainName ==
  (call.fn = "serialized" /\ call.examName = <<"a">>) =>
    ReadKinds(call.html, 1, FALSE, <<>>) = KindsOf(call.blocks)

\* the write of an image of a band throws: the step from a band to the next page
WriteThrows == pc = "bands" /\ a < Len(anchors) /\ pc' = "getPage"

\* C28: when the processing of a page throws, the contents of the questions, the
\* ordinal counters, the updated set and the extracted and linked counts are what
\* they were when the page was started; stated for page 1, which starts from the
\* parsed questions, empty counters, an empty updated set and counts of 0.
C28_FailedPageRestored ==
  [][(WriteThrows /\ pageIndex = 1) =>
       /\ questions' = parsed.items
       /\ perQuestionCounts' = <<>>
       /\ updated' = {}
       /\ extractedImages' = 0
       /\ linkedImages' = 0]_vars

ImgBlocksOf(content) == {k \in DOMAIN content : "img" \in DOMAIN content[k]}

\* the <img> blocks in the contents of the updated questions among qs
RECURSIVE ImgBlocksIn(_)
ImgBlocksIn(qs) ==
  IF qs = <<>> THEN 0
  ELSE (IF Head(qs).questionNumber \in updated
        THEN Cardinality(ImgBlocksOf(Head(qs).content)) ELSE 0)
       + ImgBlocksIn(Tail(qs))

\* the <img> blocks of the final contents that point to the file
ReferencesTo(filename) ==
  {<<i, k>> \in UNION {{i} \X ImgBlocksOf(questions[i].content) : i \in DOMAIN questions} :
     questions[i].content[k].img.src = filename}

\* C29: at the end of a run the linked count is the number of <img> blocks in the
\* final contents of the updated questions, and every image file written is
\* referenced by exactly one of them.
C29_LinkedImagesAreReferenced ==
  pc = "done" =>
    /\ linkedImages = ImgBlocksIn(questions)
    /\ \A w \in imageWrites : w.ok => Cardinality(ReferencesTo(w.filename)) = 1

\* the same with every write of the run succeeding: still violated
C29_AllWritesSucceed ==
  (pc = "done" /\ \A w \in imageWrites : w.ok) =>
    /\ linkedImages = ImgBlocksIn(questions)
    /\ \A w \in imageWrites : Cardinality(ReferencesTo(w.filename)) = 1

Fetching == call.fn = "fetchAllQuestionsFromCurlScript"

RequestsBounded ==
  /\ Len(call.sent) <= call.maxPages
  /\ \A k \in DOMAIN call.sent :
       /\ call.sent[k].start = call.start0 + (k - 1) * call.limit
       /\ call.sent[k].limit = call.limit
       /\ (call.sent[k].response = "array" /\ call.sent[k].itemCount = 0) =>
            (k = Len(call.sent) /\ call.pc # "loop")
       /\ call.sent[k].response \in {"notOk", "noArray"} =>
            (k = Len(call.sent) /\ call.pc = "failed" /\ call.error # "none")

\* C25: at most maxPages requests are sent, request k (0-based) with start =
\* start0 + k*limit and the same limit; no request follows an empty questions
\* array; a response that is not OK or has no questions array ends the run with
\* an error; and every run ends.
C25_FetchLoopEnds ==
  /\ [](Fetching => RequestsBounded)
  /\ <>(Fetching /\ call.pc \in {"done", "failed"})

\* two requests at 5 and 7, the second answered by an empty array, of up to three
C25_Witness ==
  /\ Fetching
  /\ call.pc = "done"
  /\ call.maxPages = 3
  /\ Len(call.sent) = 2
  /\ call.sent[1].start = 5 /\ call.sent[2].start = 7
  /\ call.sent[1].itemCount = 2
  /\ call.sent[2].response = "array" /\ call.sent[2].itemCount = 0

\* C30: in non-split mode the pages of the written result are the requests sent,
\* one entry each and in their order, with strictly increasing start.
C30_OnePageEntryPerRequest ==
  (Fetching /\ call.result.written) =>
    /\ Len(call.result.pages) = Len(call.sent)
    /\ \A k \in DOMAIN call.result.pages :
         k <= Len(call.sent) => call.result.pages[k].start = call.sent[k].start
    /\ \A k \in 1..(Len(call.result.pages) - 1) :
         call.result.pages[k].start < call.result.pages[k + 1].start

\* the same for a positive limit: still violated
C30_PositiveLimit ==
  (Fetching /\ call.result.written /\ call.limit > 0) =>
    /\ Len(call.result.pages) = Len(call.sent)
    /\ \A k \in 1..(Len(call.result.pages) - 1) :
         call.result.pages[k].start < call.result.pages[k + 1].start

Merged == Merging /\ call.output.written

\* two values of a field that is present are the same
SameValue(u, v) == u.type # "undefined" /\ u = v

\* C26: no two questions of the merged output share a questionId, and no two
\* share an id.
C26_NoSharedIds ==
  Merged =>
    \A i, j \in DOMAIN call.output.questions :
      (i < j /\ call.output.questions[i].object /\ call.output.questions[j].object) =>
        /\ ~SameValue(call.output.questions[i].questionId,
                      call.output.questions[j].questionId)
        /\ ~SameValue(call.output.questions[i].id, call.output.questions[j].id)

\* the questions of the files in the order of their numbers
RECURSIVE InFileOrder(_)
InFileOrder(names) ==
  IF names = {} THEN <<>>
  ELSE LET least == CHOOSE n \in names : \A m \in names : n <= m
       IN call.dir[least].questions \o InFileOrder(names \ {least})

FirstOfItsKey(all, p) ==
  \/ ~all[p].object
  \/ KeyOf(all[p], TRUE) = NoKey
  \/ \A q \in 1..(p - 1) : all[q].object => KeyOf(all[q], TRUE) # KeyOf(all[p], TRUE)

RECURSIVE Selected(_, _)
Selected(all, p) ==
  IF p = 0 THEN <<>>
  ELSE Selected(all, p - 1) \o (IF FirstOfItsKey(all, p) THEN <<all[p]>> ELSE <<>>)

\* what does hold: the output is, in file order and then array order, the first
\* question of every key, the key being the questionId when it is a number and
\* the id otherwise
C26_FirstOfEveryKey ==
  Merged =>
    LET all == InFileOrder(DOMAIN call.dir)
    IN call.output.questions = Selected(all, Len(all))

DownloadsOf(url) == {k \in DOMAIN call.downloads : call.downloads[k] = url}

\* C27: a remote URL that occurs in several <img> tags is downloaded at most
\* once during the run, and every occurrence is rewritten to the same local path.
C27_DownloadedAtMostOnce ==
  Localizing =>
    /\ \A url \in Range(call.tags) : Cardinality(DownloadsOf(url)) <= 1
    /\ call.pc = "done" =>
         \A i, j \in DOMAIN call.tags :
           call.tags[i] = call.tags[j] => call.output[i] = call.output[j]

\* what does hold: at the end every occurrence of a URL has the same local path,
\* that of a file that was written
C27_SameLocalPath ==
  (Localizing /\ call.pc = "done") =>
    \A i, j \in DOMAIN call.tags :
      /\ call.tags[i] = call.tags[j] => call.output[i] = call.output[j]
      /\ IsEnqueued(call.tags[i]) =>
           (call.output[i].local /\ call.output[i].file \in call.files)

====
